---- MODULE Spec2Model ----
(***************************************************************************)
(* Model of the rover control core of 4tronix-rover-simulator:             *)
(*   - RoverWebDriver (src/rover_web_driver.py): the direction state       *)
(*     lDir/rDir, the motor functions and the HTTP sends they make;        *)
(*   - calculate_motor_command (src/real-rover/rover_server.py): the       *)
(*     translation of wheel duty cycles into a rover command;              *)
(*   - control_rover and the spin animation of the same file: the calls    *)
(*     a request makes on the rover library, the LEDs and the response;    *)
(*   - the /command and /sequence handlers of the web interface            *)
(*     (src/web_interface/web_interface.py) and their global speed;        *)
(*   - two threads calling one RoverWebDriver;                             *)
(*   - WebSocketChannel (src/rtc_window.py): server threads, message       *)
(*     queue and timer;                                                    *)
(*   - RTCWindow (src/rtc_window.py): peer connections, capture timer and  *)
(*     cleanup;                                                            *)
(*   - the threads of the spin animation (src/real-rover/rover_server.py); *)
(*   - the web application of the simulator (src/web_interface.py);        *)
(*   - RTCClient (src/web_interface/rtc_client.py): connect, disconnect    *)
(*     and the reconnect loop.                                             *)
(***************************************************************************)
EXTENDS Integers, Sequences, FiniteSets, TLC

VARIABLES
    lDir,      \* RoverWebDriver.lDir
    rDir,      \* RoverWebDriver.rDir
    raised,    \* exception that left the last driver call ("none" if it returned)
    hist,      \* the last two driver calls, oldest first (history)
    before,    \* per side: last driven direction and stop-since, before the last call
    faults,    \* the first send of the last call that failed, 0 if none (history)
    arrived,   \* the messages of the last call that reached the server (history)
    delivered, \* per side: direction and stop-since of what reached the server before
    twin,      \* a second run of the same calls with its own send failures
    pending,   \* the call the first run has made and the second run has not yet
    duty,      \* arguments of calculate_motor_command
    result,    \* what calculate_motor_command returned (NoResult before a call)
    request,   \* rover_server: JSON body of the latest request
    calls,     \* rover_server: calls and sleeps the latest request made
    pixels,    \* rover library: colour last given to setPixel, per LED
    shown,     \* rover library: colours on display since the last show()
    animation_running,  \* rover_server.animation_running
    animation_thread,   \* rover_server.animation_thread
    response,  \* rover_server: what control_rover returned
    entry,     \* animation state at entry of the latest request, and its inputs
    caught,    \* exception control_rover caught in the latest request
    handled,   \* last high-level command that completed; has one failed since
    global_speed,  \* web_interface: the module global speed
    rovers,    \* web_interface: lDir, rDir of real_rover and of sim_rover
    web,       \* web_interface: the request each rover's handler is serving
    sent,      \* web_interface: what the latest request sent to each rover
    serial,    \* two callers of one driver: do they hold a lock around a call
    thr,       \* two callers of one driver: the call and statement each is at
    issued,    \* two callers of one driver: wheelMotors messages sent so far
    running,         \* WebSocketChannel.running
    timer_active,    \* WebSocketChannel.timer is started
    server_threads,  \* the threads start_server made: where each one is
    clients,         \* WebSocketChannel.clients
    message_queue,   \* WebSocketChannel.message_queue
    emitted,         \* payloads emitted through message_received, in order
    wire,            \* every message a client sent, in order (history)
    peer_connections,     \* RTCWindow.peer_connections
    stream_uuid_counter,  \* RTCWindow.stream_uuid_counter
    capture_timer,        \* RTCWindow.capture_timer is started
    cleaned,         \* RTCWindow.cleanup was called, and what it found (history)
    streams_started, \* stream ids start_streaming was called for, not stopped since (history)
    spinners,        \* rover_server: every thread made for animate_spin_leds
    handler_threads, \* rover_server: where each concurrent request handler is
    anim,            \* has stop_spin_animation returned; an LED write after it (history)
    client,          \* RTCClient: connected, websocket, reconnect_attempts, reconnect_task
    coroutines,      \* RTCClient: every connect() started, where each one is
    client_log,      \* RTCClient: calls and attempts counted (history)
    app              \* src/web_interface.py: the latest request and its answer

vars == <<lDir, rDir, raised, hist, before, faults, arrived, delivered, twin,
          pending, duty, result,
          request, calls, pixels, shown, animation_running, animation_thread,
          response, entry, caught, handled, global_speed, rovers, web,
          sent, serial, thr, issued, running, timer_active, server_threads,
          clients, message_queue, emitted, wire, peer_connections,
          stream_uuid_counter, capture_timer, cleaned, streams_started,
          spinners, handler_threads, anim, client, coroutines, client_log,
          app>>

driverVars == <<lDir, rDir, raised, hist, before, faults, arrived, delivered>>
twinVars == <<twin, pending>>
calcVars == <<duty, result>>
serverVars == <<request, calls, pixels, shown, animation_running,
                animation_thread, response, entry, caught, handled>>
webVars == <<global_speed, rovers, web, sent>>
raceVars == <<serial, thr, issued>>
channelVars == <<running, timer_active, server_threads, clients,
                 message_queue, emitted, wire>>
windowVars == <<peer_connections, stream_uuid_counter, capture_timer, cleaned,
                streams_started>>
animVars == <<spinners, handler_threads, anim>>
clientVars == <<client, coroutines, client_log>>
appVars == <<serverVars, webVars, raceVars, channelVars, windowVars, animVars,
             clientVars, app>>

(***************************************************************************)
(* Bounds of the model and constants of the program                        *)
(***************************************************************************)
MaxFails == 1        \* sends that fail within one call
MaxSeqLen == 1       \* instructions in the sequence of one request
MaxFailAt == 1       \* a request's library call that raises is among its first
MaxDuty == 4         \* small duty cycles enumerated for calculate_motor_command
MaxSpeed == 100      \* 0 <= speed <= 100
SettleMs == 200      \* sleep(0.2)

Speeds == {0, 40}
Duties == (0 .. MaxDuty) \cup {40, MaxSpeed}

NoExc == "none"
Outcomes == {"ok", "ConnectionError", "Timeout"}
ExcKinds == {"ConnectionError", "Timeout"}

(***************************************************************************)
(* Messages                                                                *)
(***************************************************************************)
WheelMsg(lf, lr, rf, rr) ==
    [kind |-> "wheelMotors", l |-> <<lf, lr>>, r |-> <<rf, rr>>]

ServoMsg(Servo, Degrees) ==
    [kind |-> "servos", servo |-> Servo, degrees |-> Degrees]

SleepEv(ms) == [kind |-> "sleep", ms |-> ms]

StopMsg == WheelMsg(0, 0, 0, 0)

(***************************************************************************)
(* Statements of the driver's methods.  A method is the sequence of its    *)
(* statements; Run executes them in order against the driver's state.      *)
(***************************************************************************)
\* if self.lDir == l or self.rDir == r: <the next `skip` statements>
IfDir(l, r, skip) == [k |-> "if", l |-> l, r |-> r, skip |-> skip]

\* self.lDir = l ; self.rDir = r
SetDir(l, r) == [k |-> "dir", l |-> l, r |-> r]

\* self._send_command(message)
Send(message) == [k |-> "send", message |-> message]

\* sleep(ms / 1000)
Sleep(ms) == [k |-> "sleep", ms |-> ms]

\* The outcome of the n-th send of a call under failure pattern pat.
Outcome(pat, n) == IF n \in DOMAIN pat THEN pat[n] ELSE "ok"

\* _send_command: post the message; ConnectionError and Timeout are swallowed.
send_command_timeout_escapes(message, outcome, st) ==
    [st EXCEPT !.sent = @ + 1,
               !.log = Append(@, message),
               !.got = IF outcome = "ok" THEN Append(@, message) ELSE @,
               !.exc = IF outcome = "ok" THEN NoExc
                       ELSE IF outcome \in {"ConnectionError"} THEN NoExc
                       ELSE outcome]

send_command_connection_escapes(message, outcome, st) ==
    [st EXCEPT !.sent = @ + 1,
               !.log = Append(@, message),
               !.got = IF outcome = "ok" THEN Append(@, message) ELSE @,
               !.exc = IF outcome = "ok" THEN NoExc
                       ELSE IF outcome \in {"Timeout"} THEN NoExc
                       ELSE outcome]

send_command(message, outcome, st) ==
    [st EXCEPT !.sent = @ + 1,
               !.log = Append(@, message),
               !.got = IF outcome = "ok" THEN Append(@, message) ELSE @,
               !.exc = IF outcome = "ok" THEN NoExc
                       ELSE IF outcome \in {"ConnectionError", "Timeout"} THEN NoExc
                       ELSE outcome]

\* setServo(Servo, Degrees)
setServo(Servo, Degrees) == <<Send(ServoMsg(Servo, Degrees))>>

\* stop()
stop_keeps_dir == <<Send(StopMsg)>>

stop == <<SetDir(0, 0), Send(StopMsg)>>

\* brake()
brake == <<SetDir(0, 0), Send(StopMsg)>>

\* if self.lDir == l or self.rDir == r: self.brake(); sleep(0.2)
BrakeIf(l, r) == <<IfDir(l, r, Len(brake) + 1)>> \o brake \o <<Sleep(SettleMs)>>

\* forward(speed)
forward_sleeps_first(speed) ==
    <<IfDir(-1, -1, Len(brake) + 1), Sleep(SettleMs)>> \o brake
    \o setServo(9, 0) \o setServo(15, 0) \o setServo(11, 0) \o setServo(13, 0)
    \o <<SetDir(1, 1), Send(WheelMsg(speed, 0, speed, 0))>>

forward(speed) ==
    BrakeIf(-1, -1)
    \o setServo(9, 0) \o setServo(15, 0) \o setServo(11, 0) \o setServo(13, 0)
    \o <<SetDir(1, 1), Send(WheelMsg(speed, 0, speed, 0))>>

\* reverse(speed)
reverse_unguarded(speed) ==
    setServo(9, 0) \o setServo(15, 0) \o setServo(11, 0) \o setServo(13, 0)
    \o <<SetDir(-1, -1), Send(WheelMsg(0, speed, 0, speed))>>

reverse_sends_before_dir(speed) ==
    BrakeIf(1, 1)
    \o setServo(9, 0) \o setServo(15, 0) \o setServo(11, 0) \o setServo(13, 0)
    \o <<Send(WheelMsg(0, speed, 0, speed)), SetDir(-1, -1)>>

reverse(speed) ==
    BrakeIf(1, 1)
    \o setServo(9, 0) \o setServo(15, 0) \o setServo(11, 0) \o setServo(13, 0)
    \o <<SetDir(-1, -1), Send(WheelMsg(0, speed, 0, speed))>>

\* spinLeft(speed)
spinLeft_guards_left_only(speed) ==
    BrakeIf(1, 1)
    \o setServo(9, 50) \o setServo(15, -50) \o setServo(11, -50) \o setServo(13, 50)
    \o <<SetDir(-1, 1), Send(WheelMsg(0, speed, speed, 0))>>

spinLeft_drives_first(speed) ==
    BrakeIf(1, -1)
    \o <<SetDir(-1, 1), Send(WheelMsg(0, speed, speed, 0))>>
    \o setServo(9, 50) \o setServo(15, -50) \o setServo(11, -50) \o setServo(13, 50)

spinLeft(speed) ==
    BrakeIf(1, -1)
    \o setServo(9, 50) \o setServo(15, -50) \o setServo(11, -50) \o setServo(13, 50)
    \o <<SetDir(-1, 1), Send(WheelMsg(0, speed, speed, 0))>>

\* spinRight(speed)
spinRight_guards_as_spinLeft(speed) ==
    BrakeIf(1, -1)
    \o setServo(9, 50) \o setServo(15, -50) \o setServo(11, -50) \o setServo(13, 50)
    \o <<SetDir(1, -1), Send(WheelMsg(speed, 0, 0, speed))>>

spinRight_inverted_angles(speed) ==
    BrakeIf(-1, 1)
    \o setServo(9, -50) \o setServo(15, 50) \o setServo(11, 50) \o setServo(13, -50)
    \o <<SetDir(1, -1), Send(WheelMsg(speed, 0, 0, speed))>>

spinRight(speed) ==
    BrakeIf(-1, 1)
    \o setServo(9, 50) \o setServo(15, -50) \o setServo(11, -50) \o setServo(13, 50)
    \o <<SetDir(1, -1), Send(WheelMsg(speed, 0, 0, speed))>>

\* turnForward(leftSpeed, rightSpeed)
turnForward_dir_by_speed(leftSpeed, rightSpeed) ==
    BrakeIf(-1, -1)
    \o <<SetDir(IF leftSpeed > 0 THEN 1 ELSE 0, IF rightSpeed > 0 THEN 1 ELSE 0),
         Send(WheelMsg(leftSpeed, 0, rightSpeed, 0))>>

turnForward(leftSpeed, rightSpeed) ==
    BrakeIf(-1, -1)
    \o <<SetDir(1, 1), Send(WheelMsg(leftSpeed, 0, rightSpeed, 0))>>

\* turnReverse(leftSpeed, rightSpeed)
turnReverse_resets_servos(leftSpeed, rightSpeed) ==
    BrakeIf(1, 1)
    \o setServo(9, 0) \o setServo(15, 0) \o setServo(11, 0) \o setServo(13, 0)
    \o <<SetDir(-1, -1), Send(WheelMsg(0, leftSpeed, 0, rightSpeed))>>

turnReverse(leftSpeed, rightSpeed) ==
    BrakeIf(1, 1)
    \o <<SetDir(-1, -1), Send(WheelMsg(0, leftSpeed, 0, rightSpeed))>>

\* self.leds: set to None by __init__ and never assigned again
leds == "None"

\* clear() and show(): setPixel and show only pass, nothing is sent
clear == <<>>

show == <<>>

\* cleanup(): the body of its try block
cleanup == stop \o (IF leds # "None" THEN clear \o show ELSE <<>>)

\* cleanup(): except (ConnectionError, Timeout): pass
cleanup_except(st) ==
    [st EXCEPT !.exc = IF @ \in {"ConnectionError", "Timeout"} THEN NoExc ELSE @]

(***************************************************************************)
(* Calls and their execution                                               *)
(***************************************************************************)
Call(name, x, y) == [name |-> name, x |-> x, y |-> y]

NoCall == Call("none", 0, 0)

\* The statements of a call.
Body(c) ==
    CASE c.name = "stop" -> stop
      [] c.name = "brake" -> brake
      [] c.name = "forward" -> forward(c.x)
      [] c.name = "reverse" -> reverse(c.x)
      [] c.name = "spinLeft" -> spinLeft(c.x)
      [] c.name = "spinRight" -> spinRight(c.x)
      [] c.name = "turnForward" -> turnForward(c.x, c.y)
      [] c.name = "turnReverse" -> turnReverse(c.x, c.y)
      [] c.name = "setServo" -> setServo(c.x, c.y)
      [] c.name = "cleanup" -> cleanup

\* One statement, executed on st = [lDir, rDir, log, got, at, exc, sent, pc]:
\* got holds the messages that reached the server, at the direction state
\* at the latest send.
Step(s, st, pat) ==
    CASE s.k = "if" ->
           [st EXCEPT !.pc = IF st.lDir = s.l \/ st.rDir = s.r
                             THEN @ + 1 ELSE @ + 1 + s.skip]
      [] s.k = "dir" ->
           [st EXCEPT !.lDir = s.l, !.rDir = s.r, !.pc = @ + 1]
      [] s.k = "sleep" ->
           [st EXCEPT !.log = Append(@, SleepEv(s.ms)), !.pc = @ + 1]
      [] s.k = "send" ->
           [send_command(s.message, Outcome(pat, st.sent + 1), st)
               EXCEPT !.pc = @ + 1, !.at = <<st.lDir, st.rDir>>]

\* The statements from st.pc on, until the end or until an exception escapes.
RECURSIVE Run(_, _, _)
Run(body, st, pat) ==
    IF st.pc > Len(body) \/ st.exc # NoExc
    THEN st
    ELSE Run(body, Step(body[st.pc], st, pat), pat)

\* A whole call from direction state (l, r).
Exec(c, l, r, pat) ==
    LET st0 == [lDir |-> l, rDir |-> r, log |-> <<>>, got |-> <<>>,
                at |-> <<l, r>>, exc |-> NoExc, sent |-> 0, pc |-> 1]
        st == Run(Body(c), st0, pat)
    IN  IF c.name = "cleanup" THEN cleanup_except(st) ELSE st

\* The failure patterns of a call that makes n sends when none fails.
NumSends(c, l, r) == Exec(c, l, r, <<>>).sent

\* Every send of the call has the same outcome (the server is reachable,
\* unreachable or too slow while the call runs).
Uniform(n) == {[i \in 1 .. n |-> o] : o \in Outcomes}

\* Any set of at most MaxFails sends of the call fails, with exception e.
FailSets(n) == {F \in SUBSET (1 .. n) : Cardinality(F) <= MaxFails}

Patterns(n) ==
    {[i \in 1 .. n |-> "ok"]}
    \cup {[i \in 1 .. n |-> IF i \in F THEN e ELSE "ok"] :
             F \in FailSets(n) \ {{}}, e \in ExcKinds}

(***************************************************************************)
(* calculate_motor_command (rover server)                                  *)
(***************************************************************************)
abs(x) == IF x < 0 THEN -x ELSE x

\* int(num / den): true division, then truncation toward zero.
IntOfQuotient(num, den) ==
    IF num >= 0 THEN num \div den ELSE -((-num) \div den)

\* Net speed of one side.
NetSpeed_no_cancel(fwd, rev) == fwd - rev

NetSpeed(fwd, rev) == IF fwd > 0 /\ rev > 0 THEN 0 ELSE fwd - rev

\* avg_speed = (abs(speed_left) + abs(speed_right)) / 2 ; int(avg_speed)
avg_speed_rounds_up(speed_left, speed_right) ==
    IntOfQuotient(abs(speed_left) + abs(speed_right) + 1, 2)

avg_speed_of_net(speed_left, speed_right) ==
    IntOfQuotient(abs(speed_left + speed_right), 2)

avg_speed(speed_left, speed_right) ==
    IntOfQuotient(abs(speed_left) + abs(speed_right), 2)

\* A return statement: the command, its parameters and the line returning.
Return(command, params, line) ==
    [command |-> command, params |-> params, line |-> line]

\* The if/elif chain on the two net speeds.
choose_command_reverse_signed(speed_left, speed_right) ==
    IF speed_left = 0 /\ speed_right = 0 THEN Return("stop", <<>>, 99)
    ELSE IF speed_left > 0 /\ speed_right > 0 THEN
        IF speed_left = speed_right
        THEN Return("forward", <<speed_left>>, 104)
        ELSE Return("turnForward", <<speed_left, speed_right>>, 106)
    ELSE IF speed_left < 0 /\ speed_right < 0 THEN
        IF speed_left = speed_right
        THEN Return("reverse", <<speed_left>>, 111)
        ELSE Return("turnReverse", <<abs(speed_left), abs(speed_right)>>, 113)
    ELSE IF speed_left < 0 /\ speed_right > 0 THEN
        Return("spinLeft", <<avg_speed(speed_left, speed_right)>>, 119)
    ELSE IF speed_left > 0 /\ speed_right < 0 THEN
        Return("spinRight", <<avg_speed(speed_left, speed_right)>>, 124)
    ELSE Return("stop", <<>>, 127)

choose_command_idle_side_turns(speed_left, speed_right) ==
    IF speed_left = 0 /\ speed_right = 0 THEN Return("stop", <<>>, 99)
    ELSE IF speed_left >= 0 /\ speed_right >= 0 THEN
        IF speed_left = speed_right
        THEN Return("forward", <<speed_left>>, 104)
        ELSE Return("turnForward", <<speed_left, speed_right>>, 106)
    ELSE IF speed_left < 0 /\ speed_right < 0 THEN
        IF speed_left = speed_right
        THEN Return("reverse", <<abs(speed_left)>>, 111)
        ELSE Return("turnReverse", <<abs(speed_left), abs(speed_right)>>, 113)
    ELSE IF speed_left < 0 /\ speed_right > 0 THEN
        Return("spinLeft", <<avg_speed(speed_left, speed_right)>>, 119)
    ELSE IF speed_left > 0 /\ speed_right < 0 THEN
        Return("spinRight", <<avg_speed(speed_left, speed_right)>>, 124)
    ELSE Return("stop", <<>>, 127)

choose_command(speed_left, speed_right) ==
    IF speed_left = 0 /\ speed_right = 0 THEN Return("stop", <<>>, 99)
    ELSE IF speed_left > 0 /\ speed_right > 0 THEN
        IF speed_left = speed_right
        THEN Return("forward", <<speed_left>>, 104)
        ELSE Return("turnForward", <<speed_left, speed_right>>, 106)
    ELSE IF speed_left < 0 /\ speed_right < 0 THEN
        IF speed_left = speed_right
        THEN Return("reverse", <<abs(speed_left)>>, 111)
        ELSE Return("turnReverse", <<abs(speed_left), abs(speed_right)>>, 113)
    ELSE IF speed_left < 0 /\ speed_right > 0 THEN
        Return("spinLeft", <<avg_speed(speed_left, speed_right)>>, 119)
    ELSE IF speed_left > 0 /\ speed_right < 0 THEN
        Return("spinRight", <<avg_speed(speed_left, speed_right)>>, 124)
    ELSE Return("stop", <<>>, 127)

\* Before any call of calculate_motor_command.
NoResult ==
    [command |-> "none", params |-> <<>>, line |-> 0,
     speed_left |-> 0, speed_right |-> 0]

\* calculate_motor_command: the value returned, with the two net speeds.
calculate_motor_command_sides_swapped(left_fwd, left_rev, right_fwd, right_rev) ==
    LET speed_left == NetSpeed(right_fwd, right_rev)
        speed_right == NetSpeed(left_fwd, left_rev)
        ret == choose_command(speed_left, speed_right)
    IN  [command |-> ret.command, params |-> ret.params, line |-> ret.line,
         speed_left |-> speed_left, speed_right |-> speed_right]

calculate_motor_command(left_fwd, left_rev, right_fwd, right_rev) ==
    LET speed_left == NetSpeed(left_fwd, left_rev)
        speed_right == NetSpeed(right_fwd, right_rev)
        ret == choose_command(speed_left, speed_right)
    IN  [command |-> ret.command, params |-> ret.params, line |-> ret.line,
         speed_left |-> speed_left, speed_right |-> speed_right]

(***************************************************************************)
(* History kept for the properties: what the last two calls did, and a     *)
(* summary of the motor messages issued before the last call.              *)
(***************************************************************************)
\* Direction a wheelMotors pair [forward, reverse] commands: 1, -1 or 0.
PairDir(pair) ==
    IF pair[1] > 0 /\ pair[2] = 0 THEN 1
    ELSE IF pair[2] > 0 /\ pair[1] = 0 THEN -1
    ELSE 0

IsMotor(m) == m.kind = "wheelMotors"
IsServo(m) == m.kind = "servos"
IsSleep(m) == m.kind = "sleep"
IsStopMsg(m) == m = StopMsg

Sides == {"l", "r"}

SideDir(m, side) == IF side = "l" THEN PairDir(m.l) ELSE PairDir(m.r)

\* Per side: dir = direction of the last message that drove the side,
\* stopped = a stop message was issued after it.
NoTrack == [side \in Sides |-> [dir |-> 0, stopped |-> FALSE]]

TrackMsg(t, m) ==
    IF ~IsMotor(m) THEN t
    ELSE [side \in Sides |->
            IF SideDir(m, side) # 0
            THEN [dir |-> SideDir(m, side), stopped |-> FALSE]
            ELSE IF IsStopMsg(m) THEN [t[side] EXCEPT !.stopped = TRUE]
            ELSE t[side]]

RECURSIVE Track(_, _)
Track(t, log) ==
    IF log = <<>> THEN t ELSE Track(TrackMsg(t, Head(log)), Tail(log))

LastTwo(h) == IF Len(h) > 2 THEN SubSeq(h, Len(h) - 1, Len(h)) ELSE h

(***************************************************************************)
(* rover_server.py: control_rover.  A request is the sequence of the       *)
(* statements its branch executes; RunServer executes them in order.  The  *)
(* rover library they call is the vendor's hardware library.               *)
(***************************************************************************)
None == [py |-> "None"]

\* dict.get(key, default)
Get(data, key, default) == IF key \in DOMAIN data THEN data[key] ELSE default

fromRGB(r, g, b) == <<r, g, b>>
white == fromRGB(255, 255, 255)
blue == fromRGB(0, 0, 255)
red == fromRGB(255, 0, 0)
green == fromRGB(0, 255, 0)

RoverCall(fn, args) == [op |-> "rover", fn |-> fn, args |-> args]
StopAnimation == [op |-> "stop_spin_animation", fn |-> "", args |-> <<>>]
StartAnimation(direction) ==
    [op |-> "start_spin_animation", fn |-> "", args |-> <<direction>>]
TimeSleep(seconds) == [op |-> "sleep", fn |-> "sleep", args |-> <<seconds>>]
Raise(exc) == [op |-> "raise", fn |-> exc, args |-> <<>>]

setPixel(i, colour) == RoverCall("setPixel", <<i, colour>>)
roverShow == RoverCall("show", <<>>)

\* for i in range(4): rover.setPixel(i, white)
AllWhite == [k \in 1 .. 4 |-> setPixel(k - 1, white)]

FrontBlue ==
    <<setPixel(1, blue), setPixel(2, blue), setPixel(0, white),
      setPixel(3, white)>>

RearRed ==
    <<setPixel(1, white), setPixel(2, white), setPixel(0, red),
      setPixel(3, red)>>

cmd_stop(data) ==
    <<RoverCall("stop", <<>>), StopAnimation>> \o AllWhite \o <<roverShow>>

cmd_forward(data) ==
    <<RoverCall("forward", <<Get(data, "speed", 100)>>), StopAnimation>>
    \o FrontBlue \o <<roverShow>>

cmd_reverse(data) ==
    <<RoverCall("reverse", <<Get(data, "speed", 100)>>), StopAnimation>>
    \o RearRed \o <<roverShow>>

cmd_spinLeft(data) ==
    <<RoverCall("spinLeft", <<Get(data, "speed", 100)>>),
      StartAnimation("left")>>

cmd_spinRight(data) ==
    <<RoverCall("spinRight", <<Get(data, "speed", 100)>>),
      StartAnimation("right")>>

cmd_turnForward_keeps_animation(data) ==
    <<RoverCall("turnForward",
                <<Get(data, "leftSpeed", 50), Get(data, "rightSpeed", 50)>>)>>
    \o FrontBlue \o <<roverShow>>

cmd_turnForward(data) ==
    <<RoverCall("turnForward",
                <<Get(data, "leftSpeed", 50), Get(data, "rightSpeed", 50)>>),
      StopAnimation>>
    \o FrontBlue \o <<roverShow>>

cmd_turnReverse(data) ==
    <<RoverCall("turnReverse",
                <<Get(data, "leftSpeed", 50), Get(data, "rightSpeed", 50)>>),
      StopAnimation>>
    \o RearRed \o <<roverShow>>

\* if seconds > 0: the timed stop of a steer command
TimedStop(seconds) ==
    IF seconds > 0
    THEN <<TimeSleep(seconds), RoverCall("stop", <<>>),
           RoverCall("setServo", <<9, 0>>), RoverCall("setServo", <<15, 0>>),
           RoverCall("setServo", <<11, 0>>), RoverCall("setServo", <<13, 0>>)>>
         \o AllWhite \o <<roverShow>>
    ELSE <<>>

cmd_steerLeft_servos_first(data) ==
    LET degrees == Get(data, "degrees", 20)
        seconds == Get(data, "seconds", 0)
        speed == Get(data, "speed", 60)
    IN  <<RoverCall("setServo", <<9, -degrees>>),
          RoverCall("setServo", <<15, -degrees>>),
          RoverCall("setServo", <<11, degrees>>),
          RoverCall("setServo", <<13, degrees>>),
          RoverCall("forward", <<speed>>),
          StopAnimation>>
        \o FrontBlue \o <<roverShow>> \o TimedStop(seconds)

cmd_steerLeft(data) ==
    LET degrees == Get(data, "degrees", 20)
        seconds == Get(data, "seconds", 0)
        speed == Get(data, "speed", 60)
    IN  <<RoverCall("forward", <<speed>>),
          StopAnimation,
          RoverCall("setServo", <<9, -degrees>>),
          RoverCall("setServo", <<15, -degrees>>),
          RoverCall("setServo", <<11, degrees>>),
          RoverCall("setServo", <<13, degrees>>)>>
        \o FrontBlue \o <<roverShow>> \o TimedStop(seconds)

cmd_steerRight_always_timed(data) ==
    LET degrees == Get(data, "degrees", 20)
        seconds == Get(data, "seconds", 0)
        speed == Get(data, "speed", 60)
    IN  <<RoverCall("forward", <<speed>>),
          StopAnimation,
          RoverCall("setServo", <<9, degrees>>),
          RoverCall("setServo", <<15, degrees>>),
          RoverCall("setServo", <<11, -degrees>>),
          RoverCall("setServo", <<13, -degrees>>)>>
        \o FrontBlue \o <<roverShow>> \o TimedStop(seconds + 1)

cmd_steerRight(data) ==
    LET degrees == Get(data, "degrees", 20)
        seconds == Get(data, "seconds", 0)
        speed == Get(data, "speed", 60)
    IN  <<RoverCall("forward", <<speed>>),
          StopAnimation,
          RoverCall("setServo", <<9, degrees>>),
          RoverCall("setServo", <<15, degrees>>),
          RoverCall("setServo", <<11, -degrees>>),
          RoverCall("setServo", <<13, -degrees>>)>>
        \o FrontBlue \o <<roverShow>> \o TimedStop(seconds)

\* else: print(f"Unknown command: {cmd}")
cmd_unknown_stops(data) == cmd_stop(data)

cmd_unknown(data) == <<>>

HighLevel(data) ==
    LET cmd == data.command
    IN  CASE cmd = "stop" -> cmd_stop(data)
          [] cmd = "forward" -> cmd_forward(data)
          [] cmd = "reverse" -> cmd_reverse(data)
          [] cmd = "spinLeft" -> cmd_spinLeft(data)
          [] cmd = "spinRight" -> cmd_spinRight(data)
          [] cmd = "turnForward" -> cmd_turnForward(data)
          [] cmd = "turnReverse" -> cmd_turnReverse(data)
          [] cmd = "steerLeft" -> cmd_steerLeft(data)
          [] cmd = "steerRight" -> cmd_steerRight(data)
          [] OTHER -> cmd_unknown(data)

\* int(servo_id), int(led_id): the decimal strings of the LED and servo ids
DecimalIds ==
    [s \in {"0", "1", "2", "3", "9", "11", "13", "15"} |->
        CASE s = "0" -> 0 [] s = "1" -> 1 [] s = "2" -> 2 [] s = "3" -> 3
          [] s = "9" -> 9 [] s = "11" -> 11 [] s = "13" -> 13
          [] s = "15" -> 15]

\* A call that takes int(key) of a JSON key; int raises on other text.
WithInt(key, fn, value) ==
    IF key \in DOMAIN DecimalIds
    THEN RoverCall(fn, <<DecimalIds[key], value>>)
    ELSE Raise("ValueError")

LowWheelMotors(data) ==
    IF "wheelMotors" \in DOMAIN data
    THEN LET wheel_motors == data.wheelMotors
             l == Get(wheel_motors, "l", <<0, 0>>)
             r == Get(wheel_motors, "r", <<0, 0>>)
             translated == calculate_motor_command(l[1], l[2], r[1], r[2])
         IN  <<RoverCall(translated.command, translated.params)>>
    ELSE <<>>

LowServos(data) ==
    IF "servos" \in DOMAIN data
    THEN [k \in DOMAIN data.servos |->
            WithInt(data.servos[k][1], "setServo", data.servos[k][2])]
    ELSE <<>>

LowRgbLeds(data) ==
    IF "rgbLeds" \in DOMAIN data
    THEN [k \in DOMAIN data.rgbLeds |->
            LET rgb == data.rgbLeds[k][2]
            IN  WithInt(data.rgbLeds[k][1], "setPixel",
                        fromRGB(rgb[1], rgb[2], rgb[3]))]
         \o <<roverShow>>
    ELSE <<>>

LowLevel(data) == LowWheelMotors(data) \o LowServos(data) \o LowRgbLeds(data)

\* The statements between "try:" and the reading of the sensor.
Handler(data) ==
    IF data = None THEN <<Raise("TypeError")>>
    ELSE IF "command" \in DOMAIN data THEN HighLevel(data)
    ELSE LowLevel(data)

\* The library calls a request makes if none of them raises.
NumRoverCalls(data) ==
    Cardinality({k \in DOMAIN Handler(data) : Handler(data)[k].op = "rover"})

NoThread == [direction |-> "none", idx |-> 0]

\* One statement.  The failAt-th library call of the request raises.
ServerStep(s, st, failAt) ==
    CASE s.op = "rover" ->
           IF st.n + 1 = failAt
           THEN [st EXCEPT !.n = @ + 1, !.exc = "OSError"]
           ELSE [st EXCEPT
                   !.n = @ + 1,
                   !.calls = Append(@, [fn |-> s.fn, args |-> s.args]),
                   !.pixels = IF s.fn = "setPixel"
                              THEN [@ EXCEPT ![s.args[1]] = s.args[2]]
                              ELSE @,
                   !.shown = IF s.fn = "show" THEN st.pixels ELSE @]
      [] s.op = "stop_spin_animation" ->
           [st EXCEPT !.calls = Append(@, [fn |-> s.op, args |-> s.args]),
                      !.animation_running = FALSE,
                      !.animation_thread = NoThread]
      [] s.op = "start_spin_animation" ->
           [st EXCEPT !.calls = Append(@, [fn |-> s.op, args |-> s.args]),
                      !.animation_running = TRUE,
                      !.animation_thread =
                          [direction |-> s.args[1], idx |-> 0]]
      [] s.op = "sleep" ->
           [st EXCEPT !.calls = Append(@, [fn |-> s.fn, args |-> s.args])]
      [] s.op = "raise" -> [st EXCEPT !.exc = s.fn]

RECURSIVE RunServer(_, _, _)
RunServer(body, st, failAt) ==
    IF body = <<>> \/ st.exc # NoExc THEN st
    ELSE RunServer(Tail(body), ServerStep(Head(body), st, failAt), failAt)

Ok == 200
InternalServerError == 500

NoResponse == [status |-> 0, body |-> [idle |-> TRUE]]

\* rover.getDistance(): the sensor answers with a distance or raises.
Sensors == {[raises |-> TRUE, distance |-> 0],
            [raises |-> FALSE, distance |-> 25]}

\* The response once the command was processed without an exception.
SensorResponse_sensor_fatal(sensor) ==
    IF sensor.raises
    THEN [status |-> InternalServerError, body |-> [error |-> "OSError"]]
    ELSE [status |-> Ok, body |-> [ultrasonicRange |-> sensor.distance]]

SensorResponse(sensor) ==
    IF sensor.raises
    THEN [status |-> Ok, body |-> [ultrasonicRange |-> 0]]
    ELSE [status |-> Ok, body |-> [ultrasonicRange |-> sensor.distance]]

\* control_rover on body data; the failAt-th library call raises.
control_rover(data, failAt, sensor) ==
    LET st0 == [calls |-> <<>>, pixels |-> pixels, shown |-> shown,
                animation_running |-> animation_running,
                animation_thread |-> animation_thread,
                exc |-> NoExc, n |-> 0]
        st == RunServer(Handler(data), st0, failAt)
    IN  IF st.exc # NoExc
        THEN [st |-> st,
              response |-> [status |-> InternalServerError,
                            body |-> [error |-> st.exc]]]
        ELSE [st |-> IF sensor.raises THEN st
                     ELSE [st EXCEPT !.calls =
                             Append(@, [fn |-> "getDistance", args |-> <<>>])],
              response |-> SensorResponse(sensor)]

\* main(): all LEDs white, no animation, no request yet.
ServerInit ==
    /\ request = None
    /\ calls = <<>>
    /\ pixels = [i \in 0 .. 3 |-> white]
    /\ shown = [i \in 0 .. 3 |-> white]
    /\ animation_running = FALSE
    /\ animation_thread = NoThread
    /\ response = NoResponse
    /\ entry = [animation_running |-> FALSE, animation_thread |-> NoThread,
                failAt |-> 0,
                sensor |-> [raises |-> FALSE, distance |-> 25]]
    /\ caught = NoExc
    /\ handled = [command |-> "none", failed |-> FALSE]

(***************************************************************************)
(* web_interface/web_interface.py: two drivers, the module global speed    *)
(* and the handlers of /command and /sequence                              *)
(***************************************************************************)
Rovers == {"real", "sim"}

Other(rover) == IF rover = "real" THEN "sim" ELSE "real"

\* The methods of class RoverWebDriver that drive motors and servos.
DriverMethods ==
    {"stop", "brake", "forward", "reverse", "spinLeft", "spinRight",
     "turnForward", "turnReverse", "setServo", "cleanup"}

\* rover.<name>(...) on a driver in direction state (l, r): the attribute
\* lookup raises if the class has no such method.
Invoke(c, l, r) ==
    IF c.name \in DriverMethods
    THEN Exec(c, l, r, <<>>)
    ELSE [lDir |-> l, rDir |-> r, log |-> <<>>, got |-> <<>>,
          at |-> <<l, r>>, exc |-> "AttributeError", sent |-> 0, pc |-> 1]

\* The commands dict of handle_real_command and handle_sim_command, with
\* the value the global speed has when the lambda runs.
commands(current) ==
    [forward |-> Call("forward", current, 0),
     backward |-> Call("reverse", current, 0),
     spin_left |-> Call("spinLeft", current, 0),
     spin_right |-> Call("spinRight", current, 0),
     stop |-> Call("stop", 0, 0),
     steer_left |-> Call("steerLeft", 20, 0),
     steer_right |-> Call("steerRight", 20, 0)]

\* request.json.get('speed', 100) if request.json else 100
BodySpeed(body) == IF body = None THEN 100 ELSE Get(body, "speed", 100)

Success == 200
BadRequest == 400

\* The call an instruction of a sequence makes, NoCall for other names.
SequenceCall(instruction) ==
    LET cmd == instruction.cmd
    IN  CASE cmd = "forward" -> Call("forward", 100, 0)
          [] cmd = "backward" -> Call("reverse", 100, 0)
          [] cmd = "spin_left" -> Call("spinLeft", 100, 0)
          [] cmd = "spin_right" -> Call("spinRight", 100, 0)
          [] cmd = "stop" -> Call("stop", 0, 0)
          [] cmd = "steer_left" ->
               Call("steerLeft", Get(instruction, "degrees", 20),
                    Get(instruction, "seconds", 1))
          [] cmd = "steer_right" ->
               Call("steerRight", Get(instruction, "degrees", 20),
                    Get(instruction, "seconds", 1))
          [] OTHER -> NoCall

\* One instruction: the command, sleep(time), stop, sleep(0.1).
Instruct(instruction, st) ==
    LET c == SequenceCall(instruction)
        done == IF c = NoCall THEN [st EXCEPT !.log = <<>>]
                ELSE Invoke(c, st.lDir, st.rDir)
        pause == SleepEv(1000 * Get(instruction, "time", 1))
        stopped == Exec(Call("stop", 0, 0), done.lDir, done.rDir, <<>>)
    IN  IF done.exc # NoExc
        THEN [done EXCEPT !.log = st.log \o @]
        ELSE [stopped EXCEPT
                !.log = st.log \o done.log \o <<pause>> \o @
                        \o <<SleepEv(100)>>]

\* for instruction in sequence
RECURSIVE RunSequence(_, _)
RunSequence(sequence, st) ==
    IF sequence = <<>> \/ st.exc # NoExc THEN st
    ELSE RunSequence(Tail(sequence), Instruct(Head(sequence), st))

NoHandler ==
    [pc |-> "idle", cmd |-> "none", body |-> None, sequence |-> <<>>,
     status |-> 0]

\* Module import: both drivers constructed, no request yet.
WebInit ==
    /\ global_speed = 100   \* unbound until the first request binds it
    /\ rovers = [rover \in Rovers |-> [lDir |-> 0, rDir |-> 0]]
    /\ web = [rover \in Rovers |-> NoHandler]
    /\ sent = [rover \in Rovers |-> <<>>]

(***************************************************************************)
(* Two threads calling motor functions of one RoverWebDriver               *)
(***************************************************************************)
Threads == {1, 2}

NoThreadCall == [state |-> "idle", call |-> NoCall, pc |-> 1]

\* No call has been made yet.
RaceIdle ==
    /\ thr = [t \in Threads |-> NoThreadCall]
    /\ issued = <<>>

(***************************************************************************)
(* rtc_window.py: WebSocketChannel                                         *)
(***************************************************************************)
MaxThreads == 2      \* server threads alive at the same time
MaxMsgs == 2         \* messages the clients send in one run
MaxStreams == 1      \* stream ids RTCWindow generates
MaxCandidates == 1   \* ICE candidates added to one peer connection

ThreadIds == 1 .. MaxThreads
Clients == {"c1"}

\* self.server: set to None by __init__ and never assigned again
server == None

\* WebSocketChannel.__init__
ChannelInit ==
    /\ running = FALSE
    /\ timer_active = FALSE
    /\ server_threads = [t \in ThreadIds |-> "none"]
    /\ clients = {}
    /\ message_queue = <<>>
    /\ emitted = <<>>
    /\ wire = <<>>

(***************************************************************************)
(* rtc_window.py: RTCWindow                                                *)
(***************************************************************************)
\* f"stream_{counter}" and the ids a caller passes
StreamUuid(prefix, n) == [prefix |-> prefix, n |-> n]

StreamUuids ==
    {StreamUuid("stream_", n) : n \in 0 .. (MaxStreams - 1)}
    \cup {StreamUuid("test_stream", 0)}

\* No entry under this key in peer_connections.
Absent == [absent |-> TRUE]

\* The entry start_generate_offer and start_from_offer store.
PeerConnection(state, local, remote) ==
    [state |-> state, local_description |-> local,
     remote_description |-> remote, ice_candidates |-> <<>>, stream |-> None]

\* _create_offer, _create_answer: the JSON text names its type and stream.
create_offer(stream_uuid) == [type |-> "offer", stream_uuid |-> stream_uuid]
create_answer(stream_uuid, offer) ==
    [type |-> "answer", stream_uuid |-> stream_uuid]

\* The keys of peer_connections.
Peers(pcs) == {u \in StreamUuids : pcs[u] # Absent}

\* stop_streaming(stream_uuid): the peer connections and the capture timer
\* it leaves.
stop_streaming_keeps_timer(pcs, timer, stream_uuid) ==
    LET cleared == [u \in StreamUuids |->
                      IF u \in Peers(pcs) /\ (stream_uuid = None \/ u = stream_uuid)
                      THEN [pcs[u] EXCEPT !.stream = None]
                      ELSE pcs[u]]
    IN  [peer_connections |-> cleared,
         capture_timer |->
             IF Peers(cleared) # {}
                /\ \A u \in Peers(cleared) : cleared[u].stream = None
             THEN FALSE ELSE timer]

stop_streaming(pcs, timer, stream_uuid) ==
    LET cleared == [u \in StreamUuids |->
                      IF u \in Peers(pcs) /\ (stream_uuid = None \/ u = stream_uuid)
                      THEN [pcs[u] EXCEPT !.stream = None]
                      ELSE pcs[u]]
    IN  [peer_connections |-> cleared,
         capture_timer |->
             IF \E u \in Peers(cleared) : cleared[u].stream # None
             THEN timer ELSE FALSE]

NotCleaned ==
    [done |-> FALSE, peers |-> 0, streaming |-> FALSE, serving |-> FALSE]

\* RTCWindow.__init__, the fields of the window itself.
WindowInit ==
    /\ peer_connections = [u \in StreamUuids |-> Absent]
    /\ stream_uuid_counter = 0
    /\ capture_timer = FALSE
    /\ cleaned = NotCleaned
    /\ streams_started = {}

(***************************************************************************)
(* Initial values of the animation threads, the RTC client and the         *)
(* simulator's web application                                             *)
(***************************************************************************)
MaxHandlers == 2
MaxSpinners == 2
MaxReconnects == 2
MaxConnects == 2
MaxSuccesses == 1
MaxSteps == 2

HandlerIds == 1 .. MaxHandlers

IdleHandler == [pc |-> "idle", op |-> "none", direction |-> "none", t |-> 0]

AnimInit ==
    /\ spinners = <<>>
    /\ handler_threads = [h \in HandlerIds |-> IdleHandler]
    /\ anim = [stopped |-> FALSE, late |-> FALSE]

\* RTCClient.__init__; websocket and reconnect_task are 0 for None, else the
\* number of the connect() that opened the socket or runs as the task.
ClientInit ==
    /\ client = [connected |-> FALSE, websocket |-> 0,
                 reconnect_attempts |-> 0, reconnect_task |-> 0]
    /\ coroutines = <<>>
    /\ client_log = [connects |-> 0, attempts |-> 0, successes |-> 0,
                     disconnected |-> FALSE]

SiteInit ==
    app = [route |-> "none", cmd |-> "none", sequence |-> <<>>, status |-> 0,
           log |-> <<>>]

AppInit ==
    ServerInit /\ WebInit /\ serial = TRUE /\ RaceIdle /\ ChannelInit
    /\ WindowInit
    /\ AnimInit
    /\ ClientInit
    /\ SiteInit

(***************************************************************************)
(* The driver: state after construction and one action per method          *)
(***************************************************************************)
DriverInit ==
    /\ lDir = 0
    /\ rDir = 0
    /\ raised = NoExc
    /\ hist = <<>>
    /\ before = NoTrack
    /\ faults = 0
    /\ arrived = <<>>
    /\ delivered = NoTrack

TwinInit ==
    /\ twin = [lDir |-> 0, rDir |-> 0, raised |-> NoExc, faults |-> 0]
    /\ pending = NoCall

CalcIdle ==
    /\ duty = <<0, 0, 0, 0>>
    /\ result = NoResult

\* What a call did, for the history.
Record(c, st) ==
    [call |-> c, fresh |-> (hist = <<>>), l0 |-> lDir, r0 |-> rDir,
     log |-> st.log, at |-> st.at, lDir |-> st.lDir, rDir |-> st.rDir,
     exc |-> st.exc]

\* The driver after a call that ended in st.
Driver(st) ==
    /\ lDir' = st.lDir
    /\ rDir' = st.rDir
    /\ raised' = st.exc

\* Call c is made; the server is reachable, unreachable or too slow.
Do(c) ==
    /\ \E pat \in Uniform(NumSends(c, lDir, rDir)) :
         LET st == Exec(c, lDir, rDir, pat)
         IN  /\ Driver(st)
             /\ hist' = LastTwo(Append(hist, Record(c, st)))
             /\ before' = IF hist = <<>> THEN before
                          ELSE Track(before, hist[Len(hist)].log)
    /\ UNCHANGED <<faults, arrived, delivered, twinVars, calcVars, appVars>>

Stop == Do(Call("stop", 0, 0))

Brake == Do(Call("brake", 0, 0))

Forward == \E speed \in Speeds : Do(Call("forward", speed, 0))

Reverse == \E speed \in Speeds : Do(Call("reverse", speed, 0))

SpinLeft == \E speed \in Speeds : Do(Call("spinLeft", speed, 0))

SpinRight == \E speed \in Speeds : Do(Call("spinRight", speed, 0))

TurnForward ==
    \E leftSpeed \in Speeds, rightSpeed \in Speeds :
        Do(Call("turnForward", leftSpeed, rightSpeed))

TurnReverse ==
    \E leftSpeed \in Speeds, rightSpeed \in Speeds :
        Do(Call("turnReverse", leftSpeed, rightSpeed))

ServoIds == {9, 13}
ServoDegrees == {20}

SetServo ==
    \E Servo \in ServoIds, Degrees \in ServoDegrees :
        Do(Call("setServo", Servo, Degrees))

Cleanup == Do(Call("cleanup", 0, 0))

Init == DriverInit /\ TwinInit /\ CalcIdle /\ AppInit

Next ==
    \/ Stop
    \/ Brake
    \/ Forward
    \/ Reverse
    \/ SpinLeft
    \/ SpinRight
    \/ TurnForward
    \/ TurnReverse
    \/ SetServo
    \/ Cleanup

Spec == Init /\ [][Next]_vars

(***************************************************************************)
(* Properties of the driver under serialized calls (Spec)                  *)
(***************************************************************************)
Last == hist[Len(hist)]

\* A message of log drives a side opposite to the side's last driven
\* direction although no stop message was issued since.
RECURSIVE UnbrakedReversal(_, _)
UnbrakedReversal(t, log) ==
    IF log = <<>> THEN FALSE
    ELSE LET m == Head(log)
         IN  \/ /\ IsMotor(m)
                /\ \E side \in Sides :
                     /\ SideDir(m, side) # 0
                     /\ t[side].dir = -SideDir(m, side)
                     /\ ~t[side].stopped
             \/ UnbrakedReversal(TrackMsg(t, m), Tail(log))

\* A message of log drives a side opposite to the side's last driven direction.
RECURSIVE Reversal(_, _)
Reversal(t, log) ==
    IF log = <<>> THEN FALSE
    ELSE LET m == Head(log)
         IN  \/ /\ IsMotor(m)
                /\ \E side \in Sides :
                     /\ SideDir(m, side) # 0
                     /\ t[side].dir = -SideDir(m, side)
             \/ Reversal(TrackMsg(t, m), Tail(log))

\* C1: whenever a drive message commands a side in the direction opposite to
\* the one the previous drive message commanded for that side, a stop message
\* was issued between the two.
C1_StopBetweenReversals ==
    hist # <<>> => ~UnbrakedReversal(before, Last.log)

\* C1 witness: the last call reversed a side that an earlier call had driven.
C1_Witness ==
    /\ hist # <<>>
    /\ Reversal(before, Last.log)
    /\ Last.call.name = "spinLeft"
    /\ Last.l0 = -1 /\ Last.r0 = -1

StopCount(log) == Cardinality({k \in DOMAIN log : IsStopMsg(log[k])})

\* The messages of the second call that precede its drive message.
BeforeDrive(log) == SubSeq(log, 1, Len(log) - 1)

\* After a call `first` on a fresh driver, the call `second` issues exactly one
\* stop, pauses right after it, and only then sends its servo and drive messages.
OneStopThenPause(first, second) ==
    (/\ Len(hist) = 2
     /\ hist[1].fresh
     /\ hist[1].call.name = first
     /\ hist[2].call.name = second)
    => LET one == hist[1].log
           two == hist[2].log
       IN  /\ one # <<>> /\ two # <<>>
           /\ IsMotor(one[Len(one)])
           /\ IsMotor(two[Len(two)])
           /\ StopCount(BeforeDrive(two)) = 1
           /\ Len(two) >= 3
           /\ IsStopMsg(two[1])
           /\ IsSleep(two[2]) /\ two[2].ms >= SettleMs
           /\ \A k \in 3 .. Len(two) - 1 : IsServo(two[k])
           /\ Cardinality({k \in DOMAIN two : IsSleep(two[k])}) = 1

\* C2: forward right after reverse on a fresh driver issues exactly one stop
\* message between the two drive messages, and the settle pause comes after
\* that stop and before any further message of the forward call; the same for
\* reverse right after forward.
C2_OneStopAndPause ==
    /\ OneStopThenPause("reverse", "forward")
    /\ OneStopThenPause("forward", "reverse")

\* C2 witness: forward(40) was called right after reverse(40) on a fresh driver.
C2_Witness ==
    /\ Len(hist) = 2
    /\ hist[1].fresh
    /\ hist[1].call = Call("reverse", 40, 0)
    /\ hist[2].call = Call("forward", 40, 0)
    /\ Len(hist[2].log) = 7

\* The direction state each motor function leaves.
DirAfter(name) ==
    CASE name \in {"stop", "brake"} -> <<0, 0>>
      [] name \in {"forward", "turnForward"} -> <<1, 1>>
      [] name \in {"reverse", "turnReverse"} -> <<-1, -1>>
      [] name = "spinLeft" -> <<-1, 1>>
      [] name = "spinRight" -> <<1, -1>>

MotorNames ==
    {"stop", "brake", "forward", "reverse", "spinLeft", "spinRight",
     "turnForward", "turnReverse"}

\* C3: the direction state is (0,0) at construction, always within {-1,0,1},
\* and on return of each motor function it is the pair that function sets,
\* whatever the speeds and the previous state.
C3_DirectionState ==
    /\ lDir \in {-1, 0, 1}
    /\ rDir \in {-1, 0, 1}
    /\ hist = <<>> => <<lDir, rDir>> = <<0, 0>>
    /\ (hist # <<>> /\ Last.call.name \in MotorNames)
         => <<lDir, rDir>> = DirAfter(Last.call.name)

\* C3 witness: turnForward with a zero speed, called while the driver was
\* spinning left, returned.
C3_Witness ==
    /\ hist # <<>>
    /\ Last.call = Call("turnForward", 0, 40)
    /\ Last.l0 = -1 /\ Last.r0 = 1
    /\ <<lDir, rDir>> = <<1, 1>>

\* C4: stop() twice in a row issues exactly two stop messages and no servo
\* message, raises nothing, and leaves the direction state at (0,0) after the
\* first and after the second call.
C4_StopTwice ==
    (/\ Len(hist) = 2
     /\ hist[1].call.name = "stop"
     /\ hist[2].call.name = "stop")
    => /\ hist[1].log = <<StopMsg>>
       /\ hist[2].log = <<StopMsg>>
       /\ hist[1].exc = NoExc /\ hist[2].exc = NoExc /\ raised = NoExc
       /\ <<hist[1].lDir, hist[1].rDir>> = <<0, 0>>
       /\ <<hist[2].lDir, hist[2].rDir>> = <<0, 0>>
       /\ <<lDir, rDir>> = <<0, 0>>

\* C4 witness: stop() was called twice in a row, the first time while the
\* driver was spinning right.
C4_Witness ==
    /\ Len(hist) = 2
    /\ hist[1].call.name = "stop"
    /\ hist[2].call.name = "stop"
    /\ hist[1].l0 = 1 /\ hist[1].r0 = -1

(***************************************************************************)
(* The translation of wheel duty cycles (SpecCalc)                         *)
(***************************************************************************)
\* The arguments of one call: duty cycles of the documented range.
InitCalc ==
    /\ DriverInit
    /\ TwinInit
    /\ AppInit
    /\ duty \in Duties \X Duties \X Duties \X Duties
    /\ result = NoResult

\* calculate_motor_command(left_fwd, left_rev, right_fwd, right_rev) returns.
Translate ==
    /\ result = NoResult
    /\ result' = calculate_motor_command(duty[1], duty[2], duty[3], duty[4])
    /\ UNCHANGED <<duty, driverVars, twinVars, appVars>>

NextCalc == Translate

SpecCalc == InitCalc /\ [][NextCalc]_vars

Returned == result.command # "none"

\* Both duties of a side are positive.
Cancelled(fwd, rev) == fwd > 0 /\ rev > 0

\* C5: a side whose forward and reverse duty are both > 0 has net speed 0;
\* otherwise its net speed is forward minus reverse; so each net speed lies
\* in [-100, 100].
C5_NetSpeed ==
    Returned =>
        /\ Cancelled(duty[1], duty[2]) => result.speed_left = 0
        /\ Cancelled(duty[3], duty[4]) => result.speed_right = 0
        /\ ~Cancelled(duty[1], duty[2]) => result.speed_left = duty[1] - duty[2]
        /\ ~Cancelled(duty[3], duty[4]) => result.speed_right = duty[3] - duty[4]
        /\ result.speed_left \in -MaxSpeed .. MaxSpeed
        /\ result.speed_right \in -MaxSpeed .. MaxSpeed

\* C5 witness: both duties of the left side are positive and differ, the
\* right side is driven forward only.
C5_Witness ==
    /\ Returned
    /\ duty = <<3, 4, 40, 0>>
    /\ result.speed_left = 0
    /\ result.speed_right = 40

\* C6: both net speeds > 0: forward(speed) if equal, else turnForward(left,
\* right); both < 0: reverse(|speed|) if equal, else turnReverse(|left|,
\* |right|); both 0: stop without parameters.
C6_StraightAndArc ==
    Returned =>
        LET l == result.speed_left
            r == result.speed_right
        IN  /\ (l > 0 /\ r > 0 /\ l = r)
                 => result.command = "forward" /\ result.params = <<l>>
            /\ (l > 0 /\ r > 0 /\ l # r)
                 => result.command = "turnForward" /\ result.params = <<l, r>>
            /\ (l < 0 /\ r < 0 /\ l = r)
                 => result.command = "reverse" /\ result.params = <<-l>>
            /\ (l < 0 /\ r < 0 /\ l # r)
                 => result.command = "turnReverse" /\ result.params = <<-l, -r>>
            /\ (l = 0 /\ r = 0)
                 => result.command = "stop" /\ result.params = <<>>

\* C6 witness: both sides reverse at the same speed.
C6_Witness ==
    /\ Returned
    /\ duty = <<0, 40, 0, 40>>
    /\ result.command = "reverse"
    /\ result.params = <<40>>

\* C7: left < 0 < right gives spinLeft(a), right < 0 < left gives
\* spinRight(a), a the truncated integer average of the two magnitudes;
\* left=[0,40], right=[40,0] gives spinLeft(40); magnitudes 3 and 4 give 3.
C7_SpinAverage ==
    Returned =>
        LET l == result.speed_left
            r == result.speed_right
            total == abs(l) + abs(r)
            a == CHOOSE n \in 0 .. MaxSpeed : 2 * n <= total /\ total < 2 * (n + 1)
        IN  /\ (l < 0 /\ r > 0)
                 => result.command = "spinLeft" /\ result.params = <<a>>
            /\ (l > 0 /\ r < 0)
                 => result.command = "spinRight" /\ result.params = <<a>>
            /\ duty = <<0, 40, 40, 0>>
                 => result.command = "spinLeft" /\ result.params = <<40>>
            /\ (abs(l) = 3 /\ abs(r) = 4 /\ l * r < 0) => result.params = <<3>>

\* C7 witness: the left side reverses at 3 and the right side drives at 4.
C7_Witness ==
    /\ Returned
    /\ duty = <<0, 3, 4, 0>>
    /\ result.command = "spinLeft"
    /\ result.params = <<3>>

\* C8: the final else branch (line 127) is never reached for inputs in
\* [0,100].
C8_ElseUnreachable == Returned => result.line # 127

(***************************************************************************)
(* Sends that fail one by one, and a second run of the same calls          *)
(* (SpecFaults)                                                            *)
(***************************************************************************)
\* The calls of the actions above.
Calls ==
    {Call("stop", 0, 0), Call("brake", 0, 0), Call("cleanup", 0, 0)}
    \cup {Call(name, speed, 0) :
            name \in {"forward", "reverse", "spinLeft", "spinRight"},
            speed \in Speeds}
    \cup {Call(name, leftSpeed, rightSpeed) :
            name \in {"turnForward", "turnReverse"},
            leftSpeed \in Speeds, rightSpeed \in Speeds}
    \cup {Call("setServo", Servo, Degrees) :
            Servo \in ServoIds, Degrees \in ServoDegrees}

\* The first send that fails under pat, 0 if none does.
FirstFault(pat) ==
    IF \E i \in DOMAIN pat : pat[i] # "ok"
    THEN CHOOSE i \in DOMAIN pat :
           pat[i] # "ok" /\ \A j \in DOMAIN pat : pat[j] # "ok" => i <= j
    ELSE 0

\* The first run makes a call; any of its sends may fail.
Attempt ==
    /\ pending = NoCall
    /\ \E c \in Calls :
         \E pat \in Patterns(NumSends(c, lDir, rDir)) :
            LET st == Exec(c, lDir, rDir, pat)
            IN  /\ Driver(st)
                /\ hist' = <<Record(c, st)>>
                /\ faults' = FirstFault(pat)
                /\ pending' = c
    /\ UNCHANGED <<before, arrived, delivered, twin, calcVars, appVars>>

\* The second run makes the same call; its sends fail independently.
Repeat ==
    /\ pending # NoCall
    /\ \E pat \in Patterns(NumSends(pending, twin.lDir, twin.rDir)) :
         LET st == Exec(pending, twin.lDir, twin.rDir, pat)
         IN  twin' = [lDir |-> st.lDir, rDir |-> st.rDir, raised |-> st.exc,
                      faults |-> FirstFault(pat)]
    /\ pending' = NoCall
    /\ UNCHANGED <<driverVars, calcVars, appVars>>

NextFaults == Attempt \/ Repeat

SpecFaults == Init /\ [][NextFaults]_vars

\* C9: two runs of the same calls whose sends fail differently end every
\* call in the same direction state.
C9_DirectionIgnoresFailures ==
    pending = NoCall => twin.lDir = lDir /\ twin.rDir = rDir

\* C9 witness: both runs have returned from a spinRight that had to brake;
\* in one run a send failed, in the other none did.
C9_Witness ==
    /\ pending = NoCall
    /\ hist # <<>>
    /\ Last.call.name = "spinRight"
    /\ Last.l0 = -1
    /\ faults = 2
    /\ twin.faults = 0
    /\ <<lDir, rDir>> = <<1, -1>>

\* What a call issues when no send fails.
Unfailing(c, l, r) == Exec(c, l, r, <<>>).log

\* C10: a ConnectionError or Timeout raised by a send never leaves the call,
\* and the call still performs all its remaining steps in order: it issues
\* what it issues when no send fails.  A forward whose brake send fails still
\* pauses, sends the four servo resets and sends the drive message.
C10_FailuresSwallowed ==
    /\ raised = NoExc
    /\ twin.raised = NoExc
    /\ hist # <<>> =>
         /\ Last.exc = NoExc
         /\ Last.log = Unfailing(Last.call, Last.l0, Last.r0)
         /\ <<Last.lDir, Last.rDir>> = <<lDir, rDir>>
    /\ (hist # <<>> /\ Last.call.name = "forward" /\ Last.l0 = -1 /\ faults = 1)
         => Last.log = <<StopMsg, SleepEv(SettleMs),
                         ServoMsg(9, 0), ServoMsg(15, 0),
                         ServoMsg(11, 0), ServoMsg(13, 0),
                         WheelMsg(Last.call.x, 0, Last.call.x, 0)>>

\* C10 witness: a forward called in reverse returned, its brake send failed.
C10_Witness ==
    /\ hist # <<>>
    /\ Last.call = Call("forward", 40, 0)
    /\ Last.l0 = -1 /\ Last.r0 = -1
    /\ faults = 1
    /\ Len(Last.log) = 7
    /\ raised = NoExc

(***************************************************************************)
(* The rover server: requests handled one at a time, and the animation     *)
(* thread between them (SpecServer)                                        *)
(***************************************************************************)
HighNames ==
    {"stop", "forward", "reverse", "spinLeft", "spinRight", "turnForward",
     "turnReverse", "steerLeft", "steerRight"}
Steers == {"steerLeft", "steerRight"}
Spins == {"spinLeft", "spinRight"}

HighRequests ==
    {[command |-> c] : c \in HighNames \cup {"dance"}}
    \cup {[command |-> "forward", speed |-> 40],
          [command |-> "steerLeft", degrees |-> 10, speed |-> 40],
          [command |-> "steerRight", degrees |-> 10, seconds |-> 2]}

LowRequests ==
    {[wheelMotors |-> [l |-> <<0, 40>>, r |-> <<40, 0>>]],
     [wheelMotors |-> [r |-> <<40, 0>>],
      servos |-> <<<<"9", 0>>, <<"15", 0>>>>,
      rgbLeds |-> <<<<"1", <<0, 0, 255>>>>>>],
     [servos |-> <<<<"x", 20>>>>],
     [other |-> 1]}

Requests == {None} \cup HighRequests \cup LowRequests

\* Which library call of a request raises: none, or one of the first few.
FailPoints(data) ==
    {k \in 0 .. NumRoverCalls(data) : k <= MaxFailAt}

IsHigh(data) == "command" \in DOMAIN data /\ data.command \in HighNames

\* One request, from "data = request.json" to the return.
ControlRover ==
    /\ \E data \in Requests, sensor \in Sensors :
         \E failAt \in FailPoints(data) :
            LET out == control_rover(data, failAt, sensor)
            IN  /\ request' = data
                /\ calls' = out.st.calls
                /\ pixels' = out.st.pixels
                /\ shown' = out.st.shown
                /\ animation_running' = out.st.animation_running
                /\ animation_thread' = out.st.animation_thread
                /\ response' = out.response
                /\ caught' = out.st.exc
                /\ entry' = [animation_running |-> animation_running,
                             animation_thread |-> animation_thread,
                             failAt |-> failAt, sensor |-> sensor]
                /\ handled' =
                     IF ~IsHigh(data) THEN handled
                     ELSE IF out.st.exc = NoExc
                     THEN [command |-> data.command, failed |-> FALSE]
                     ELSE [handled EXCEPT !.failed = TRUE]
    /\ UNCHANGED <<driverVars, twinVars, calcVars, webVars, raceVars,
                   channelVars,
                   windowVars, animVars, clientVars, app>>

\* One round of the loop of animate_spin_leds.
Animate ==
    /\ animation_thread # NoThread
    /\ animation_running
    /\ LET sequence == IF animation_thread.direction = "right"
                       THEN <<1, 2, 3, 0>> ELSE <<1, 0, 3, 2>>
           lit == [i \in 0 .. 3 |->
                     IF i = sequence[animation_thread.idx + 1]
                     THEN green ELSE white]
       IN  /\ pixels' = lit
           /\ shown' = lit
    /\ animation_thread' =
         [animation_thread EXCEPT !.idx = (@ + 1) % 4]
    /\ UNCHANGED <<request, calls, animation_running, response, entry,
                   caught, handled, driverVars, twinVars, calcVars,
                   webVars, raceVars, channelVars,
                   windowVars, animVars, clientVars, app>>

NextServer == ControlRover \/ Animate

SpecServer == Init /\ [][NextServer]_vars

\* The latest request named this command.
Command(name) == "command" \in DOMAIN request /\ request.command = name

\* The latest request was processed without an exception.
Completed == response.status = Ok

ServoCalls == SelectSeq(calls, LAMBDA c : c.fn = "setServo")

\* The front angle of the latest steer request.
FrontAngle ==
    IF Command("steerLeft") THEN 0 - Get(request, "degrees", 20)
    ELSE Get(request, "degrees", 20)

\* C11: while a steer request runs, every servo call comes after its
\* forward(speed) call; once it has run, forward(speed) was its first call
\* and its first four servo calls put the front servos 9 and 15 at -degrees
\* and the rear servos 11 and 13 at +degrees for steerLeft, and the
\* opposite signs for steerRight.
C11_ForwardBeforeSteerServos ==
    \A name \in Steers :
        Command(name) =>
            LET forwardCall == [fn |-> "forward",
                                args |-> <<Get(request, "speed", 60)>>]
            IN  /\ \A i \in DOMAIN calls :
                     calls[i].fn = "setServo" =>
                         \E j \in 1 .. (i - 1) : calls[j] = forwardCall
                /\ Completed =>
                     /\ calls[1] = forwardCall
                     /\ Len(ServoCalls) >= 4
                     /\ {ServoCalls[k].args : k \in 1 .. 4} =
                          {<<9, FrontAngle>>, <<15, FrontAngle>>,
                           <<11, 0 - FrontAngle>>, <<13, 0 - FrontAngle>>}

C11_Witness ==
    /\ Command("steerLeft")
    /\ Completed
    /\ Get(request, "degrees", 20) = 10
    /\ Len(ServoCalls) = 4
    /\ ServoCalls[1].args = <<9, -10>>
    /\ ServoCalls[3].args = <<11, 10>>

Count(fn) == Cardinality({i \in DOMAIN calls : calls[i].fn = fn})

\* The motor and servo calls and the sleeps of the latest request.
Maneuver ==
    SelectSeq(calls,
              LAMBDA c : c.fn \notin {"setPixel", "show", "getDistance",
                                      "stop_spin_animation",
                                      "start_spin_animation"})

\* C12: a completed steer request with seconds = 0 made one forward call,
\* four servo calls, no stop and no sleep; with seconds > 0 it made one
\* forward call and four servo calls, then slept for seconds, then called
\* stop and set the servos 9, 15, 11 and 13 to 0, in that order.
C12_ContinuousAndTimedSteer ==
    \A name \in Steers :
        (Command(name) /\ Completed) =>
            LET seconds == Get(request, "seconds", 0)
                neutral(Servo) == [fn |-> "setServo", args |-> <<Servo, 0>>]
            IN  /\ seconds = 0 =>
                     /\ Count("forward") = 1
                     /\ Count("setServo") = 4
                     /\ Count("stop") = 0
                     /\ Count("sleep") = 0
                /\ seconds > 0 =>
                     /\ Len(Maneuver) = 11
                     /\ Maneuver[1].fn = "forward"
                     /\ \A k \in 2 .. 5 : Maneuver[k].fn = "setServo"
                     /\ Maneuver[6] = [fn |-> "sleep", args |-> <<seconds>>]
                     /\ Maneuver[7] = [fn |-> "stop", args |-> <<>>]
                     /\ SubSeq(Maneuver, 8, 11) =
                          <<neutral(9), neutral(15), neutral(11), neutral(13)>>

C12_Witness ==
    /\ Command("steerRight")
    /\ Completed
    /\ Get(request, "seconds", 0) = 2
    /\ Count("stop") = 1
    /\ Count("sleep") = 1

\* The latest request named a command that control_rover does not know.
Unknown == "command" \in DOMAIN request /\ request.command \notin HighNames

\* C14: a request with an unknown command name makes no call but the
\* reading of the distance sensor, leaves the spin animation as it was when
\* the request arrived, and is answered with status 200 and a range.
C14_UnknownCommandIsNoOp ==
    Unknown =>
        /\ \A i \in DOMAIN calls : calls[i].fn = "getDistance"
        /\ animation_running = entry.animation_running
        /\ animation_thread.direction = entry.animation_thread.direction
        /\ response.status = Ok
        /\ DOMAIN response.body = {"ultrasonicRange"}

C14_Witness ==
    /\ Unknown
    /\ entry.animation_running
    /\ animation_running
    /\ animation_thread.direction = "left"
    /\ response.status = Ok

\* A step of the command processing of the latest request raised.
Raised ==
    \/ entry.failAt > 0
    \/ request = None /\ response # NoResponse
    \/ \E k \in DOMAIN Handler(request) : Handler(request)[k].op = "raise"

\* C15: every handled request has a response; if a step of its processing
\* raised, the response has status 500 and an error and no ultrasonicRange;
\* otherwise it has status 200 and an ultrasonicRange, which is 0 if the
\* reading of the distance sensor raised.
C15_AlwaysAnswers ==
    response # NoResponse =>
        /\ Raised <=> caught # NoExc
        /\ Raised =>
             /\ response.status = InternalServerError
             /\ DOMAIN response.body = {"error"}
        /\ ~Raised =>
             /\ response.status = Ok
             /\ DOMAIN response.body = {"ultrasonicRange"}
             /\ entry.sensor.raises => response.body.ultrasonicRange = 0
             /\ ~entry.sensor.raises =>
                  response.body.ultrasonicRange = entry.sensor.distance

C15_Witness ==
    /\ Command("forward")
    /\ ~Raised
    /\ entry.sensor.raises
    /\ response.status = Ok
    /\ response.body.ultrasonicRange = 0

\* LEDs 1 and 2 show front, LEDs 0 and 3 show rear.
LedsAre(front, rear) ==
    shown = [i \in 0 .. 3 |-> IF i \in {1, 2} THEN front ELSE rear]

AnimationRuns == animation_running /\ animation_thread # NoThread

CommandNames ==
    {"forward", "backward", "spin_left", "stop", "steer_left", "steer_right",
     "dance"}

Bodies == {None, [speed |-> 40], [other |-> 1]}

Instructions ==
    {[cmd |-> "forward"], [cmd |-> "backward", time |-> 2],
     [cmd |-> "steer_left"],
     [cmd |-> "steer_right", degrees |-> 10, seconds |-> 2],
     [cmd |-> "dance"]}

RECURSIVE SeqsUpTo(_)
SeqsUpTo(n) ==
    IF n = 0 THEN {<<>>}
    ELSE SeqsUpTo(n - 1)
         \cup {Append(q, i) : q \in {p \in SeqsUpTo(n - 1) : Len(p) = n - 1},
                              i \in Instructions}

\* handle_real_command / handle_sim_command up to the binding of speed.
BindSpeed(rover) ==
    /\ web[rover].pc = "idle"
    /\ \E cmd \in CommandNames, body \in Bodies :
         /\ global_speed' = BodySpeed(body)
         /\ web' = [web EXCEPT ![rover] =
                      [pc |-> "dispatch", cmd |-> cmd, body |-> body,
                       sequence |-> <<>>, status |-> 0]]
    /\ sent' = [sent EXCEPT ![rover] = <<>>]
    /\ UNCHANGED <<rovers, driverVars, twinVars, calcVars, serverVars,
                   raceVars, channelVars,
                   windowVars, animVars, clientVars, app>>

\* A handler that stops the rover when the name is not in the dict.
Dispatch_unknown_stops(rover) ==
    /\ web[rover].pc = "dispatch"
    /\ LET table == commands(global_speed)
           cmd == web[rover].cmd
           st == Invoke(IF cmd \in DOMAIN table THEN table[cmd]
                        ELSE Call("stop", 0, 0),
                        rovers[rover].lDir, rovers[rover].rDir)
       IN  /\ rovers' = [rovers EXCEPT ![rover] =
                           [lDir |-> st.lDir, rDir |-> st.rDir]]
           /\ sent' = [sent EXCEPT ![rover] = st.log]
           /\ web' = [web EXCEPT
                        ![rover].pc = "idle",
                        ![rover].status =
                            IF cmd \notin DOMAIN table THEN BadRequest
                            ELSE IF st.exc = NoExc THEN Success
                            ELSE InternalServerError]
    /\ UNCHANGED <<global_speed, driverVars, twinVars, calcVars, serverVars,
                   raceVars, channelVars,
                   windowVars, animVars, clientVars, app>>

\* The rest of the handler: the commands dict, the call, the response.
Dispatch(rover) ==
    /\ web[rover].pc = "dispatch"
    /\ LET table == commands(global_speed)
           cmd == web[rover].cmd
       IN  IF cmd \in DOMAIN table
           THEN LET st == Invoke(table[cmd], rovers[rover].lDir,
                                 rovers[rover].rDir)
                IN  /\ rovers' = [rovers EXCEPT ![rover] =
                                    [lDir |-> st.lDir, rDir |-> st.rDir]]
                    /\ sent' = [sent EXCEPT ![rover] = st.log]
                    /\ web' = [web EXCEPT
                                 ![rover].pc = "idle",
                                 ![rover].status =
                                     IF st.exc = NoExc THEN Success
                                     ELSE InternalServerError]
           ELSE /\ web' = [web EXCEPT ![rover].pc = "idle",
                                      ![rover].status = BadRequest]
                /\ UNCHANGED <<rovers, sent>>
    /\ UNCHANGED <<global_speed, driverVars, twinVars, calcVars, serverVars,
                   raceVars, channelVars,
                   windowVars, animVars, clientVars, app>>

\* handle_real_sequence / handle_sim_sequence
Sequence(rover) ==
    /\ web[rover].pc = "idle"
    /\ \E sequence \in SeqsUpTo(MaxSeqLen) :
         LET st0 == [lDir |-> rovers[rover].lDir, rDir |-> rovers[rover].rDir,
                     log |-> <<>>, got |-> <<>>,
                     at |-> <<rovers[rover].lDir, rovers[rover].rDir>>,
                     exc |-> NoExc, sent |-> 0, pc |-> 1]
             st == RunSequence(sequence, st0)
         IN  /\ rovers' = [rovers EXCEPT ![rover] =
                             [lDir |-> st.lDir, rDir |-> st.rDir]]
             /\ sent' = [sent EXCEPT ![rover] = st.log]
             /\ web' = [web EXCEPT ![rover] =
                          [pc |-> "idle", cmd |-> "sequence", body |-> None,
                           sequence |-> sequence,
                           status |-> IF st.exc = NoExc THEN Success
                                      ELSE InternalServerError]]
    /\ UNCHANGED <<global_speed, driverVars, twinVars, calcVars, serverVars,
                   raceVars, channelVars,
                   windowVars, animVars, clientVars, app>>

NextWeb ==
    \E rover \in Rovers :
        \/ BindSpeed(rover)
        \/ Dispatch(rover)
        \/ Sequence(rover)

SpecWeb == Init /\ [][NextWeb]_vars

SteerNames == {"steer_left", "steer_right"}

\* The latest request for the rover, now answered, asked for a steer.
SteerAnswered(rover) ==
    /\ web[rover].pc = "idle"
    /\ \/ web[rover].cmd \in SteerNames
       \/ \E i \in DOMAIN web[rover].sequence :
            web[rover].sequence[i].cmd \in SteerNames

Sent(rover, Test(_)) ==
    Cardinality({i \in DOMAIN sent[rover] : Test(sent[rover][i])})

IsForward(msg) == IsMotor(msg) /\ SideDir(msg, "l") = 1 /\ SideDir(msg, "r") = 1

\* C13: a steer_left or steer_right command, or a sequence with such an
\* instruction, is answered with success after a forward drive message and
\* four servo messages were sent to the rover.
C13_SteerSucceeds ==
    \A rover \in Rovers :
        SteerAnswered(rover) =>
            /\ web[rover].status = Success
            /\ Sent(rover, IsForward) >= 1
            /\ Sent(rover, IsServo) >= 4

DrivenAt(log, requested) ==
    \A i \in DOMAIN log :
        IsMotor(log[i]) =>
            \A duty_cycle \in {log[i].l[1], log[i].l[2], log[i].r[1],
                               log[i].r[2]} :
                duty_cycle \in {0, requested}

\* C18: the step that answers a /command request for one rover leaves the
\* other rover's lDir and rDir as they were, and every drive message it
\* sends carries the speed of its own request body (100 if the body has
\* none), whatever the handler of the other rover does meanwhile.
C18_IndependentRovers ==
    [][\A rover \in Rovers :
          (web[rover].pc = "dispatch" /\ web'[rover].pc = "idle") =>
              /\ rovers'[Other(rover)] = rovers[Other(rover)]
              /\ DrivenAt(sent'[rover], BodySpeed(web[rover].body))]_vars

(***************************************************************************)
(* Two threads on one driver, one motor function each, their statements    *)
(* interleaved unless the callers serialize the calls (SpecRace)           *)
(***************************************************************************)
RaceCalls ==
    {Call("stop", 0, 0), Call("brake", 0, 0)}
    \cup {Call(name, 40, 0) :
            name \in {"forward", "reverse", "spinLeft", "spinRight"}}
    \cup {Call(name, 40, 40) : name \in {"turnForward", "turnReverse"}}

InitRace ==
    /\ DriverInit
    /\ TwinInit
    /\ CalcIdle
    /\ ServerInit
    /\ WebInit
    /\ serial \in BOOLEAN
    /\ RaceIdle
    /\ ChannelInit
    /\ WindowInit
    /\ AnimInit
    /\ ClientInit
    /\ SiteInit

\* A thread enters a motor function.
Enter(t) ==
    /\ thr[t].state = "idle"
    /\ serial => \A u \in Threads : thr[u].state # "running"
    /\ \E c \in RaceCalls :
         thr' = [thr EXCEPT ![t] = [state |-> "running", call |-> c, pc |-> 1]]
    /\ UNCHANGED <<serial, issued, driverVars, twinVars, calcVars, serverVars,
                   webVars, channelVars,
                   windowVars, animVars, clientVars, app>>

\* A thread executes the statement it is at.
Advance(t) ==
    /\ thr[t].state = "running"
    /\ LET body == Body(thr[t].call)
           st0 == [lDir |-> lDir, rDir |-> rDir, log |-> <<>>, got |-> <<>>,
                   at |-> <<lDir, rDir>>, exc |-> NoExc, sent |-> 0,
                   pc |-> thr[t].pc]
           st == Step(body[thr[t].pc], st0, <<>>)
       IN  /\ lDir' = st.lDir
           /\ rDir' = st.rDir
           /\ issued' = issued \o SelectSeq(st.log, IsMotor)
           /\ thr' = [thr EXCEPT
                        ![t].pc = st.pc,
                        ![t].state = IF st.pc > Len(body) THEN "done"
                                     ELSE "running"]
    /\ UNCHANGED <<serial, raised, hist, before, faults, arrived, delivered,
                   twinVars, calcVars,
                   serverVars, webVars, channelVars,
                   windowVars, animVars, clientVars, app>>

NextRace == \E t \in Threads : Enter(t) \/ Advance(t)

SpecRace == InitRace /\ [][NextRace]_vars

\* A message drives a side against the direction of an earlier message,
\* and no stop message lies between the two.
ReversedUnbraked ==
    \E side \in Sides, j \in DOMAIN issued :
        /\ SideDir(issued[j], side) # 0
        /\ \E i \in 1 .. (j - 1) :
             /\ SideDir(issued[i], side) = 0 - SideDir(issued[j], side)
             /\ \A k \in (i + 1) .. (j - 1) : ~IsStopMsg(issued[k])

\* No call is running, and lDir, rDir are not the directions of the last
\* wheelMotors message.
FinalDisagrees ==
    /\ \A t \in Threads : thr[t].state # "running"
    /\ issued # <<>>
    /\ \/ lDir # SideDir(issued[Len(issued)], "l")
       \/ rDir # SideDir(issued[Len(issued)], "r")

\* C17: if the two callers serialize their calls, no drive message reverses
\* a side without a stop since the opposite drive, and between calls lDir
\* and rDir are the directions of the last message; if they do not, both
\* failures are reachable (C17_Witness).
C17_SerializedCallsAreSafe ==
    serial => (~ReversedUnbraked /\ ~FinalDisagrees)

C17_Witness ==
    /\ ~serial
    /\ ReversedUnbraked
    /\ FinalDisagrees
    /\ \A t \in Threads : thr[t].state = "done"

(***************************************************************************)
(* WebSocketChannel: the Qt thread calls start_server and stop_server and  *)
(* runs the timer; each server thread binds the port and polls running;    *)
(* clients connect and send (SpecChannel, and SpecChannelLive with the     *)
(* timer firing while it is started)                                       *)
(***************************************************************************)
Serving == {t \in ThreadIds : server_threads[t] = "serving"}
Alive == {t \in ThreadIds : server_threads[t] # "none"}

\* server.close(): the loops stop serving.
CloseServer == [t \in ThreadIds |-> "none"]

\* start_server()
start_server ==
    /\ IF running
       THEN UNCHANGED <<running, timer_active, server_threads>>
       ELSE /\ \E t \in ThreadIds :
                 /\ server_threads[t] = "none"
                 /\ server_threads' = [server_threads EXCEPT ![t] = "starting"]
            /\ running' = TRUE
            /\ timer_active' = TRUE
    /\ UNCHANGED <<clients, message_queue, emitted, wire, driverVars,
                   twinVars, calcVars, serverVars, webVars, raceVars, windowVars, animVars, clientVars, app>>

\* stop_server(): what it does to the channel
StopServer ==
    /\ running' = FALSE
    /\ server_threads' = IF server # None THEN CloseServer ELSE server_threads
    /\ timer_active' = FALSE

\* stop_server()
stop_server ==
    /\ StopServer
    /\ UNCHANGED <<clients, message_queue, emitted, wire, driverVars,
                   twinVars, calcVars, serverVars, webVars, raceVars, windowVars, animVars, clientVars, app>>

\* _run_server up to "WebSocket server started": websockets.serve binds
\* the port, or raises because another loop still listens on it.
run_server(t) ==
    /\ server_threads[t] = "starting"
    /\ server_threads' =
         [server_threads EXCEPT ![t] = IF Serving = {} THEN "serving"
                                       ELSE "none"]
    /\ UNCHANGED <<running, timer_active, clients, message_queue, emitted,
                   wire, driverVars, twinVars, calcVars, serverVars, webVars,
                   raceVars, windowVars, animVars, clientVars, app>>

\* while self.running: a serving loop finds running False and leaves;
\* leaving the async with closes the server and its connections.
leave_loop(t) ==
    /\ server_threads[t] = "serving"
    /\ ~running
    /\ server_threads' = [server_threads EXCEPT ![t] = "none"]
    /\ clients' = {}
    /\ UNCHANGED <<running, timer_active, message_queue, emitted, wire,
                   driverVars, twinVars, calcVars, serverVars, webVars,
                   raceVars, windowVars, animVars, clientVars, app>>

\* _handle_client: a client connects to the serving loop.
connect(c) ==
    /\ c \notin clients
    /\ Serving # {}
    /\ clients' = clients \cup {c}
    /\ UNCHANGED <<running, timer_active, server_threads, message_queue,
                   emitted, wire, driverVars, twinVars, calcVars, serverVars,
                   webVars, raceVars, windowVars, animVars, clientVars, app>>

\* _handle_client: a message arrives; json.loads accepts it or raises
\* JSONDecodeError.
receive_closes_on_invalid(c) ==
    /\ c \in clients
    /\ Len(wire) < MaxMsgs
    /\ \E valid \in BOOLEAN :
         /\ message_queue' = IF valid THEN Append(message_queue, Len(wire) + 1)
                             ELSE message_queue
         /\ clients' = IF valid THEN clients ELSE clients \ {c}
         /\ wire' = Append(wire, [id |-> Len(wire) + 1, valid |-> valid,
                                  running |-> running,
                                  kept |-> c \in clients'])
    /\ UNCHANGED <<running, timer_active, server_threads, emitted,
                   driverVars, twinVars, calcVars, serverVars, webVars,
                   raceVars, windowVars, animVars, clientVars, app>>

receive(c) ==
    /\ c \in clients
    /\ Len(wire) < MaxMsgs
    /\ \E valid \in BOOLEAN :
         /\ message_queue' = IF valid THEN Append(message_queue, Len(wire) + 1)
                             ELSE message_queue
         /\ wire' = Append(wire, [id |-> Len(wire) + 1, valid |-> valid,
                                  running |-> running, kept |-> TRUE])
    /\ UNCHANGED <<running, timer_active, server_threads, clients, emitted,
                   driverVars, twinVars, calcVars, serverVars, webVars,
                   raceVars, windowVars, animVars, clientVars, app>>

\* _handle_client: the client closes the connection.
disconnect(c) ==
    /\ c \in clients
    /\ clients' = clients \ {c}
    /\ UNCHANGED <<running, timer_active, server_threads, message_queue,
                   emitted, wire, driverVars, twinVars, calcVars, serverVars,
                   webVars, raceVars, windowVars, animVars, clientVars, app>>

\* _process_message_queue, called by the timer while it is started.
process_message_queue ==
    /\ timer_active
    /\ emitted' = emitted \o message_queue
    /\ message_queue' = <<>>
    /\ UNCHANGED <<running, timer_active, server_threads, clients, wire,
                   driverVars, twinVars, calcVars, serverVars, webVars,
                   raceVars, windowVars, animVars, clientVars, app>>

NextChannel ==
    \/ start_server
    \/ stop_server
    \/ \E t \in ThreadIds : run_server(t)
    \/ \E t \in ThreadIds : leave_loop(t)
    \/ \E c \in Clients : connect(c)
    \/ \E c \in Clients : receive(c)
    \/ \E c \in Clients : disconnect(c)
    \/ process_message_queue

SpecChannel == Init /\ [][NextChannel]_vars

\* The timer fires every 10 ms while it is started.
SpecChannelLive == SpecChannel /\ WF_vars(process_message_queue)

\* The payloads of the valid messages sent so far, in the order sent.
ValidSent ==
    LET accepted == SelectSeq(wire, LAMBDA m : m.valid)
    IN  [k \in DOMAIN accepted |-> accepted[k].id]

\* A valid message with this payload was sent while the channel was running.
Accepted(id) ==
    \E i \in DOMAIN wire : wire[i].id = id /\ wire[i].valid /\ wire[i].running

Emitted(id) == \E k \in DOMAIN emitted : emitted[k] = id

\* Emitted and queued payloads are the valid messages, once each and in
\* the order sent; no invalid message closed its connection.
QueueDiscipline ==
    /\ emitted \o message_queue = ValidSent
    /\ \A i \in DOMAIN wire : ~wire[i].valid => wire[i].kept

C20_OneServerThread == Cardinality(Alive) <= 1

(***************************************************************************)
(* When the driver brakes, and what reaches the server                     *)
(***************************************************************************)
\* The call issued a brake: a stop message and the settle pause right after.
BrakeIssued(log) ==
    \E k \in 1 .. (Len(log) - 1) :
        /\ IsStopMsg(log[k])
        /\ IsSleep(log[k + 1]) /\ log[k + 1].ms = SettleMs

GuardedNames ==
    {"forward", "reverse", "spinLeft", "spinRight", "turnForward",
     "turnReverse"}

\* A side's previous direction is the opposite of the one the call sets.
Opposes(name, l, r) ==
    \/ l # 0 /\ l = 0 - DirAfter(name)[1]
    \/ r # 0 /\ r = 0 - DirAfter(name)[2]

\* C22: a motor operation issues a brake exactly if a side's previous
\* direction is the nonzero opposite of the direction it sets for that side:
\* forward/turnForward iff lDir=-1 or rDir=-1, reverse/turnReverse iff lDir=1
\* or rDir=1, spinLeft iff lDir=1 or rDir=-1, spinRight iff lDir=-1 or
\* rDir=1; none from (0,0), none when the same operation is repeated.
C22_BrakeIffOpposite ==
    (hist # <<>> /\ Last.call.name \in GuardedNames) =>
        LET name == Last.call.name
            l == Last.l0
            r == Last.r0
            braked == BrakeIssued(Last.log)
        IN  /\ braked <=> Opposes(name, l, r)
            /\ name \in {"forward", "turnForward"} =>
                 (braked <=> (l = -1 \/ r = -1))
            /\ name \in {"reverse", "turnReverse"} =>
                 (braked <=> (l = 1 \/ r = 1))
            /\ name = "spinLeft" => (braked <=> (l = 1 \/ r = -1))
            /\ name = "spinRight" => (braked <=> (l = -1 \/ r = 1))
            /\ (l = 0 /\ r = 0) => ~braked
            /\ (Len(hist) = 2 /\ hist[1].call.name = name) => ~braked

\* C22 witness: spinRight called while driving forward braked, because the
\* right side was going forward.
C22_Witness ==
    /\ hist # <<>>
    /\ Last.call.name = "spinRight"
    /\ Last.l0 = 1 /\ Last.r0 = 1
    /\ BrakeIssued(Last.log)

\* The motor functions, at one speed.
DeliveryCalls ==
    {Call("stop", 0, 0), Call("brake", 0, 0)}
    \cup {Call(name, 40, 0) :
            name \in {"forward", "reverse", "spinLeft", "spinRight"}}
    \cup {Call(name, 40, 40) : name \in {"turnForward", "turnReverse"}}

\* A call any of whose sends may fail; the server sees what reached it.
Transmit ==
    /\ \E c \in DeliveryCalls :
         \E pat \in Patterns(NumSends(c, lDir, rDir)) :
            LET st == Exec(c, lDir, rDir, pat)
            IN  /\ Driver(st)
                /\ hist' = <<Record(c, st)>>
                /\ faults' = FirstFault(pat)
                /\ arrived' = st.got
                /\ delivered' = Track(delivered, arrived)
    /\ UNCHANGED <<before, twinVars, calcVars, appVars>>

NextDelivery == Transmit

SpecDelivery == Init /\ [][NextDelivery]_vars

\* C23: in the messages that reached the server, no drive message reverses
\* a side without a stop message having reached the server since the
\* opposite drive, whichever sends fail.
C23_DeliveredStopBetweenReversals ==
    hist # <<>> => ~UnbrakedReversal(delivered, arrived)

(***************************************************************************)
(* The order of the messages of one call, and the steering servos          *)
(***************************************************************************)
\* The messages of a call before its last five, and its last five.
Lead(log) == SubSeq(log, 1, Len(log) - 5)
LastFive(log) == SubSeq(log, Len(log) - 4, Len(log))

BrakeAndPause == <<StopMsg, SleepEv(SettleMs)>>

\* The four steering servos, in the order the driver addresses them.
SteeringServos == <<9, 15, 11, 13>>

\* C24: a forward or reverse call issues the optional stop message and
\* pause, then the servo messages setting 9, 15, 11 and 13 to 0 in this
\* order, then its one drive message, which is its last message; lDir and
\* rDir already have their new values when the drive message is sent.
C24_NeutralSteeringThenDrive ==
    (hist # <<>> /\ Last.call.name \in {"forward", "reverse"}) =>
        LET log == Last.log
            speed == Last.call.x
            drive == IF Last.call.name = "forward"
                     THEN WheelMsg(speed, 0, speed, 0)
                     ELSE WheelMsg(0, speed, 0, speed)
        IN  /\ Len(log) >= 5
            /\ Lead(log) \in {<<>>, BrakeAndPause}
            /\ LastFive(log) =
                 [k \in 1 .. 4 |-> ServoMsg(SteeringServos[k], 0)] \o <<drive>>
            /\ Last.at = DirAfter(Last.call.name)

\* C24 witness: reverse(40) called while driving forward braked, paused,
\* reset the servos and sent its drive message with lDir = rDir = -1.
C24_Witness ==
    /\ hist # <<>>
    /\ Last.call = Call("reverse", 40, 0)
    /\ Last.l0 = 1 /\ Last.r0 = 1
    /\ Len(Last.log) = 7
    /\ Last.at = <<-1, -1>>

\* The pivot configuration: the angle of each steering servo.
PivotAngle(Servo) ==
    CASE Servo = 9 -> 50 [] Servo = 15 -> -50 [] Servo = 11 -> -50
      [] Servo = 13 -> 50

\* C25: a spinLeft or spinRight call issues the optional stop message and
\* pause, then the four servo messages of the pivot configuration, then its
\* spin drive message; no drive message precedes any of the four.
C25_PivotBeforeSpin ==
    (hist # <<>> /\ Last.call.name \in {"spinLeft", "spinRight"}) =>
        LET log == Last.log
            speed == Last.call.x
            drive == IF Last.call.name = "spinLeft"
                     THEN WheelMsg(0, speed, speed, 0)
                     ELSE WheelMsg(speed, 0, 0, speed)
        IN  /\ Len(log) >= 5
            /\ Lead(log) \in {<<>>, BrakeAndPause}
            /\ LastFive(log) =
                 [k \in 1 .. 4 |->
                    ServoMsg(SteeringServos[k], PivotAngle(SteeringServos[k]))]
                 \o <<drive>>
            /\ \A i \in DOMAIN log :
                 (IsMotor(log[i]) /\ ~IsStopMsg(log[i])) =>
                     Cardinality({j \in 1 .. (i - 1) : IsServo(log[j])}) = 4

\* C25 witness: spinLeft(40) called while driving forward braked first.
C25_Witness ==
    /\ hist # <<>>
    /\ Last.call = Call("spinLeft", 40, 0)
    /\ Last.l0 = 1 /\ Last.r0 = 1
    /\ Len(Last.log) = 7
    /\ IsServo(Last.log[3]) /\ IsServo(Last.log[6])
    /\ Last.log[7] = WheelMsg(0, 40, 40, 0)

\* Left and right exchanged in a wheelMotors message.
Mirrored(m) == IF IsMotor(m) THEN [m EXCEPT !.l = m.r, !.r = m.l] ELSE m

OtherSpin(name) == IF name = "spinLeft" THEN "spinRight" ELSE "spinLeft"

\* What the other spin does from the state with left and right exchanged.
MirrorRun == Exec(Call(OtherSpin(Last.call.name), Last.call.x, 0),
                  Last.r0, Last.l0, <<>>)

Angles(log) == [k \in 1 .. 4 |-> SelectSeq(log, IsServo)[k].degrees]

\* Guard, direction signs and drive message of a spin are those of the
\* other spin with left and right exchanged.
SpinsMirrorWheels ==
    /\ BrakeIssued(Last.log) <=> BrakeIssued(MirrorRun.log)
    /\ <<Last.lDir, Last.rDir>> = <<MirrorRun.rDir, MirrorRun.lDir>>
    /\ Last.log[Len(Last.log)] = Mirrored(MirrorRun.log[Len(MirrorRun.log)])
    /\ SelectSeq(Last.log, IsMotor) =
         [k \in DOMAIN SelectSeq(MirrorRun.log, IsMotor) |->
            Mirrored(SelectSeq(MirrorRun.log, IsMotor)[k])]

\* C26 (angles sign-inverted): a spin mirrors the wheels of the other spin,
\* and each servo angle it applies is minus the angle the other spin applies
\* to that servo.
C26_MirroredAngles ==
    (hist # <<>> /\ Last.call.name \in {"spinLeft", "spinRight"}) =>
        /\ SpinsMirrorWheels
        /\ Angles(Last.log) = [k \in 1 .. 4 |-> 0 - Angles(MirrorRun.log)[k]]

\* C26: a spin mirrors the wheels of the other spin (guard, direction signs
\* and drive message with left and right exchanged), and applies the same
\* four servo angles as the other spin: 50, -50, -50, 50 for the servos
\* 9, 15, 11, 13.
C26_MirroredWheelsSameAngles ==
    (hist # <<>> /\ Last.call.name \in {"spinLeft", "spinRight"}) =>
        /\ SpinsMirrorWheels
        /\ Angles(Last.log) = Angles(MirrorRun.log)
        /\ Angles(Last.log) = <<50, -50, -50, 50>>

\* C26 witness: spinRight(40) called while reversing braked, as spinLeft does
\* from the mirrored state.
C26_Witness ==
    /\ hist # <<>>
    /\ Last.call = Call("spinRight", 40, 0)
    /\ Last.l0 = -1 /\ Last.r0 = -1
    /\ BrakeIssued(Last.log)
    /\ BrakeIssued(MirrorRun.log)
    /\ Last.log[7] = WheelMsg(40, 0, 0, 40)
    /\ MirrorRun.log[7] = WheelMsg(0, 40, 40, 0)

\* The angle of each steering servo after the messages of log, from angles.
RECURSIVE ApplyServos(_, _)
ApplyServos(angles, log) ==
    IF log = <<>> THEN angles
    ELSE ApplyServos(IF IsServo(Head(log))
                     THEN (Head(log).servo :> Head(log).degrees) @@ angles
                     ELSE angles,
                     Tail(log))

Neutral == [Servo \in {9, 15, 11, 13} |-> 0]

\* C27: turnForward, turnReverse, stop and brake issue no servo message, so
\* the servo angles the previous call left are the angles after the call;
\* the drive message of turnForward(l, r) and turnReverse(l, r) carries l
\* for the left side and r for the right side.
C27_TurnsLeaveServos ==
    (hist # <<>>
     /\ Last.call.name \in {"turnForward", "turnReverse", "stop", "brake"}) =>
        LET log == Last.log
            l == Last.call.x
            r == Last.call.y
        IN  /\ \A i \in DOMAIN log : ~IsServo(log[i])
            /\ Len(hist) = 2 =>
                 ApplyServos(ApplyServos(Neutral, hist[1].log), log)
                   = ApplyServos(Neutral, hist[1].log)
            /\ Last.call.name = "turnForward" =>
                 log[Len(log)] = WheelMsg(l, 0, r, 0)
            /\ Last.call.name = "turnReverse" =>
                 log[Len(log)] = WheelMsg(0, l, 0, r)

\* C27 witness: turnReverse(40, 0) right after a spinLeft: the servos are
\* still in the pivot configuration.
C27_Witness ==
    /\ Len(hist) = 2
    /\ hist[1].call.name = "spinLeft"
    /\ Last.call = Call("turnReverse", 40, 0)
    /\ Last.log[Len(Last.log)] = WheelMsg(0, 40, 0, 0)
    /\ ApplyServos(ApplyServos(Neutral, hist[1].log), Last.log)
         = [Servo \in {9, 15, 11, 13} |-> PivotAngle(Servo)]

(***************************************************************************)
(* More on the translation of wheel duty cycles (SpecCalc)                 *)
(***************************************************************************)
Maneuvers ==
    {"forward", "reverse", "turnForward", "turnReverse", "spinLeft",
     "spinRight"}

\* C28: for duty cycles in [0,100] the command is stop exactly if at least
\* one of the two net speeds is 0; if both are nonzero it is one of the six
\* maneuvers.
C28_StopIffASideIdle ==
    Returned =>
        LET l == result.speed_left
            r == result.speed_right
        IN  /\ result.command = "stop" <=> (l = 0 \/ r = 0)
            /\ (l # 0 /\ r # 0) => result.command \in Maneuvers
            /\ result.command \in Maneuvers \cup {"stop"}

\* C28 witness: the left side is idle, the right side is driven: stop.
C28_Witness ==
    /\ Returned
    /\ duty = <<0, 0, 40, 0>>
    /\ result.speed_left = 0 /\ result.speed_right = 40
    /\ result.command = "stop"

\* C29: for duty cycles in [0,100] every speed parameter of the returned
\* maneuver is an integer in [1,100].
C29_SpeedsInRange ==
    Returned =>
        \A k \in DOMAIN result.params : result.params[k] \in 1 .. MaxSpeed

\* C29 witness: a spin whose magnitudes are 1 and 2 has the truncated
\* average 1.
C29_Witness ==
    /\ Returned
    /\ duty = <<0, 1, 2, 0>>
    /\ result.command = "spinLeft"
    /\ result.params = <<1>>

(***************************************************************************)
(* Driver and server together: the server translates the wheelMotors       *)
(* messages a driver call posted (SpecTrip)                                *)
(***************************************************************************)
TripSpeeds == Duties \ {0}

\* Arc calls: per-side speeds in [0,100], not both 0.
TurnSpeeds == {0, 3, 40}

TurnCalls ==
    {Call(name, leftSpeed, rightSpeed) :
        name \in {"turnForward", "turnReverse"},
        leftSpeed \in TurnSpeeds,
        rightSpeed \in TurnSpeeds} \ {Call(name, 0, 0) :
                                        name \in {"turnForward", "turnReverse"}}

TripCalls ==
    {Call("stop", 0, 0), Call("brake", 0, 0)}
    \cup {Call(name, speed, 0) :
            name \in {"forward", "reverse", "spinLeft", "spinRight"},
            speed \in TripSpeeds}
    \cup TurnCalls

\* The driver makes a call; every post reaches the server.
Post ==
    /\ \E c \in TripCalls :
         LET st == Exec(c, lDir, rDir, <<>>)
         IN  /\ Driver(st)
             /\ hist' = <<Record(c, st)>>
    /\ duty' = <<0, 0, 0, 0>>
    /\ result' = NoResult
    /\ UNCHANGED <<before, faults, arrived, delivered, twinVars, appVars>>

\* control_rover on one wheelMotors message of the call: l and r are read
\* from the message and handed to calculate_motor_command.
Receive ==
    /\ hist # <<>>
    /\ result = NoResult
    /\ \E i \in DOMAIN hist[1].log :
         LET message == hist[1].log[i]
         IN  /\ IsMotor(message)
             /\ duty' = <<message.l[1], message.l[2], message.r[1],
                          message.r[2]>>
             /\ result' = calculate_motor_command(message.l[1], message.l[2],
                                                  message.r[1], message.r[2])
    /\ UNCHANGED <<driverVars, twinVars, appVars>>

NextTrip == Post \/ Receive

SpecTrip == Init /\ [][NextTrip]_vars

\* The message the server translated.
Received == WheelMsg(duty[1], duty[2], duty[3], duty[4])

\* C30: for speeds in [1,100], the drive message of forward, reverse,
\* spinLeft and spinRight is translated to the command of the same name
\* with the same speed; the message of stop and brake, also of the brake
\* inside another call, is translated to stop.
C30_RoundTrip ==
    (hist # <<>> /\ Returned) =>
        LET c == Last.call
            drive == Last.log[Len(Last.log)]
        IN  /\ Received = StopMsg =>
                 result.command = "stop" /\ result.params = <<>>
            /\ c.name \in {"stop", "brake"} => Received = StopMsg
            /\ (c.name \in {"forward", "reverse", "spinLeft", "spinRight"}
                /\ Received = drive) =>
                   result.command = c.name /\ result.params = <<c.x>>

\* C30 witness: the drive message of a spinRight(3) that braked first was
\* translated to spinRight with speed 3.
C30_Witness ==
    /\ hist # <<>>
    /\ Returned
    /\ Last.call = Call("spinRight", 3, 0)
    /\ Last.l0 = -1
    /\ Len(Last.log) = 7
    /\ Received = WheelMsg(3, 0, 0, 3)
    /\ result.command = "spinRight"
    /\ result.params = <<3>>

(***************************************************************************)
(* RTCWindow: its methods are called from the Qt thread until cleanup;     *)
(* the server thread its constructor started runs beside them (SpecWindow, *)
(* and SpecWindowLive with the server thread scheduled)                    *)
(***************************************************************************)
Offers == {[type |-> "offer", sdp |-> "test"]}
Answers == {[type |-> "answer", sdp |-> "test"]}
Candidates == {[candidate |-> "test candidate", sdpMLineIndex |-> 0]}

\* RTCWindow.__init__: the window's fields, and the channel after the
\* start_server call of line 180.
InitWindow ==
    /\ DriverInit
    /\ TwinInit
    /\ CalcIdle
    /\ ServerInit
    /\ WebInit
    /\ serial = TRUE
    /\ RaceIdle
    /\ WindowInit
    /\ AnimInit
    /\ ClientInit
    /\ SiteInit
    /\ running = TRUE
    /\ timer_active = TRUE
    /\ server_threads = [t \in ThreadIds |-> IF t = 1 THEN "starting" ELSE "none"]
    /\ clients = {}
    /\ message_queue = <<>>
    /\ emitted = <<>>
    /\ wire = <<>>

\* peer_connections after start_from_offer(stream_uuid, offer)
StartFromOffer(pcs, stream_uuid, offer) ==
    [pcs EXCEPT ![stream_uuid] =
        PeerConnection("creating_answer", create_answer(stream_uuid, offer),
                       offer)]

\* peer_connections after process_answer(stream_uuid, answer)
ProcessAnswer(pcs, stream_uuid, answer) ==
    IF stream_uuid \notin Peers(pcs) THEN pcs
    ELSE [pcs EXCEPT ![stream_uuid].remote_description = answer,
                     ![stream_uuid].state = "connected"]

\* peer_connections after add_ice_candidate(stream_uuid, candidate)
AddIceCandidate(pcs, stream_uuid, candidate) ==
    IF stream_uuid \notin Peers(pcs) THEN pcs
    ELSE [pcs EXCEPT ![stream_uuid].ice_candidates = Append(@, candidate)]

\* The candidate lists are kept within the bound of the model.
RoomForCandidate(stream_uuid) ==
    stream_uuid \in Peers(peer_connections)
        => Len(peer_connections[stream_uuid].ice_candidates) < MaxCandidates

start_generate_offer ==
    /\ ~cleaned.done
    /\ \E stream_uuid \in StreamUuids \cup {None} :
         LET uuid == IF stream_uuid = None
                     THEN StreamUuid("stream_", stream_uuid_counter)
                     ELSE stream_uuid
         IN  /\ stream_uuid = None => stream_uuid_counter < MaxStreams
             /\ stream_uuid_counter' = IF stream_uuid = None
                                       THEN stream_uuid_counter + 1
                                       ELSE stream_uuid_counter
             /\ peer_connections' =
                  [peer_connections EXCEPT ![uuid] =
                      PeerConnection("creating_offer", create_offer(uuid),
                                     None)]
    /\ UNCHANGED <<capture_timer, cleaned, streams_started, driverVars,
                   twinVars, calcVars, serverVars, webVars, raceVars,
                   channelVars, animVars, clientVars, app>>

start_from_offer ==
    /\ ~cleaned.done
    /\ \E stream_uuid \in StreamUuids, offer \in Offers :
         peer_connections' = StartFromOffer(peer_connections, stream_uuid, offer)
    /\ UNCHANGED <<stream_uuid_counter, capture_timer, cleaned,
                   streams_started, driverVars, twinVars, calcVars,
                   serverVars, webVars, raceVars, channelVars, animVars,
                   clientVars, app>>

process_answer ==
    /\ ~cleaned.done
    /\ \E stream_uuid \in StreamUuids, answer \in Answers :
         peer_connections' = ProcessAnswer(peer_connections, stream_uuid, answer)
    /\ UNCHANGED <<stream_uuid_counter, capture_timer, cleaned,
                   streams_started, driverVars, twinVars, calcVars,
                   serverVars, webVars, raceVars, channelVars, animVars,
                   clientVars, app>>

add_ice_candidate ==
    /\ ~cleaned.done
    /\ \E stream_uuid \in StreamUuids, candidate \in Candidates :
         /\ RoomForCandidate(stream_uuid)
         /\ peer_connections' =
              AddIceCandidate(peer_connections, stream_uuid, candidate)
    /\ UNCHANGED <<stream_uuid_counter, capture_timer, cleaned,
                   streams_started, driverVars, twinVars, calcVars,
                   serverVars, webVars, raceVars, channelVars, animVars,
                   clientVars, app>>

StartStreaming(stream_uuid) ==
    /\ ~cleaned.done
    /\ capture_timer' = TRUE
    /\ streams_started' = IF stream_uuid = None THEN streams_started
                          ELSE streams_started \cup {stream_uuid}
    /\ UNCHANGED <<peer_connections, stream_uuid_counter, cleaned,
                   driverVars, twinVars, calcVars, serverVars, webVars,
                   raceVars, channelVars, animVars, clientVars, app>>

\* start_streaming() with the default stream_uuid
start_streaming == StartStreaming(None)

\* Signaling messages a client may have queued.
SignalingMessages ==
    {[type |-> "offer", stream_uuid |-> u, sdp |-> o] :
        u \in StreamUuids, o \in Offers}
    \cup {[type |-> "answer", stream_uuid |-> u, sdp |-> a] :
            u \in StreamUuids, a \in Answers}
    \cup {[type |-> "ice_candidate", stream_uuid |-> u, candidate |-> c] :
            u \in StreamUuids, c \in Candidates}
    \cup {[type |-> "frame"], [type |-> "offer"]}

\* _handle_signaling_message, the slot of message_received: it runs when
\* the channel's timer, while started, emits a queued message.
handle_signaling_message ==
    /\ timer_active
    /\ \E message \in SignalingMessages :
         LET message_type == message.type
             stream_uuid == Get(message, "stream_uuid", None)
         IN  IF message_type = "offer" /\ stream_uuid # None
             THEN peer_connections' =
                      StartFromOffer(peer_connections, stream_uuid, message.sdp)
             ELSE IF message_type = "answer" /\ stream_uuid # None
             THEN peer_connections' =
                      ProcessAnswer(peer_connections, stream_uuid, message.sdp)
             ELSE IF message_type = "ice_candidate" /\ stream_uuid # None
             THEN /\ RoomForCandidate(stream_uuid)
                  /\ peer_connections' =
                       AddIceCandidate(peer_connections, stream_uuid,
                                       message.candidate)
             ELSE UNCHANGED peer_connections
    /\ UNCHANGED <<stream_uuid_counter, capture_timer, cleaned,
                   streams_started, driverVars, twinVars, calcVars,
                   serverVars, webVars, raceVars, channelVars, animVars,
                   clientVars, app>>

\* RTCWindow.cleanup(): stop_streaming(), websocket_channel.stop_server(),
\* peer_connections.clear().  No method is called on the window afterwards.
RTCWindow_cleanup ==
    /\ ~cleaned.done
    /\ capture_timer' =
         stop_streaming(peer_connections, capture_timer, None).capture_timer
    /\ StopServer
    /\ peer_connections' = [u \in StreamUuids |-> Absent]
    /\ cleaned' = [done |-> TRUE,
                   peers |-> Cardinality(Peers(peer_connections)),
                   streaming |-> capture_timer,
                   serving |-> Serving # {}]
    /\ streams_started' = {}
    /\ UNCHANGED <<stream_uuid_counter, clients, message_queue, emitted, wire,
                   driverVars, twinVars, calcVars, serverVars, webVars,
                   raceVars, animVars, clientVars, app>>

NextWindow ==
    \/ start_generate_offer
    \/ start_from_offer
    \/ process_answer
    \/ add_ice_candidate
    \/ start_streaming
    \/ handle_signaling_message
    \/ RTCWindow_cleanup
    \/ \E t \in ThreadIds : run_server(t)
    \/ \E t \in ThreadIds : leave_loop(t)

SpecWindow == InitWindow /\ [][NextWindow]_vars

\* The server thread is scheduled: it binds or fails, and it polls running.
SpecWindowLive ==
    /\ SpecWindow
    /\ \A t \in ThreadIds : WF_vars(run_server(t)) /\ WF_vars(leave_loop(t))

NoPeers == Peers(peer_connections) = {}

\* C21: once cleanup was called, after any calls of start_generate_offer,
\* start_from_offer, process_answer, add_ice_candidate and start_streaming,
\* peer_connections is empty, the capture timer is stopped and running is
\* false; and the server loop eventually ends.
C21_CleanupReleases ==
    /\ [](cleaned.done => (NoPeers /\ ~capture_timer /\ ~running))
    /\ cleaned.done ~> (Alive = {})

\* C21 witness: cleanup found two peer connections, the capture timer
\* started and the server loop serving; all are gone.
C21_Witness ==
    /\ cleaned.done
    /\ cleaned.peers = 2
    /\ cleaned.streaming
    /\ cleaned.serving
    /\ NoPeers
    /\ ~capture_timer
    /\ ~running
    /\ Alive = {}


(***************************************************************************)
(* Arcs through the server (SpecTrip)                                      *)
(***************************************************************************)
\* The maneuver an arc call stands for: the arc with both per-side speeds,
\* or the straight drive when the two are equal.
ArcManeuver(c) ==
    LET straight == IF c.name = "turnForward" THEN "forward" ELSE "reverse"
    IN  IF c.x = c.y
        THEN [command |-> straight, params |-> <<c.x>>]
        ELSE [command |-> c.name, params |-> <<c.x, c.y>>]

\* The direction state a maneuver of the server moves the wheels in.
ManeuverDirection(command) ==
    CASE command \in {"forward", "turnForward"} -> <<1, 1>>
      [] command \in {"reverse", "turnReverse"} -> <<-1, -1>>
      [] command = "spinLeft" -> <<-1, 1>>
      [] command = "spinRight" -> <<1, -1>>
      [] OTHER -> <<0, 0>>

\* C31: for per-side speeds in [0,100] that are not both 0, the drive message
\* of turnForward is translated to the forward arc with both speeds (forward
\* when they are equal), so the direction of the server's maneuver is the
\* driver's direction state (1,1); the same for turnReverse with (-1,-1).
C31_ArcRoundTrip ==
    (hist # <<>> /\ Returned /\ Last.call \in TurnCalls
     /\ Received = Last.log[Len(Last.log)]) =>
        /\ result.command = ArcManeuver(Last.call).command
        /\ result.params = ArcManeuver(Last.call).params
        /\ ManeuverDirection(result.command) = <<Last.lDir, Last.rDir>>

(***************************************************************************)
(* The spin animation with threads: request handlers run                   *)
(* start_spin_animation and stop_spin_animation statement by statement,    *)
(* animation threads run the loop of animate_spin_leds (SpecAnim)          *)
(***************************************************************************)
SpinnerIds == DOMAIN spinners

\* The thread is executing the loop of animate_spin_leds.
InLoop(t) == spinners[t].pc \in {"test", "body"}

\* A handler that is inside start_spin_animation and has not made its
\* thread yet.
Starting(h) ==
    /\ handler_threads[h].op = "start"
    /\ handler_threads[h].pc \notin {"idle", "launch"}

AnimFrame ==
    UNCHANGED <<driverVars, twinVars, calcVars, request, calls, response,
                entry, caught, handled, webVars, raceVars, channelVars,
                windowVars, clientVars, app>>

\* control_rover reaches start_spin_animation(direction) (a spin command) or
\* stop_spin_animation() (any other command).
Request(h) ==
    /\ handler_threads[h].pc = "idle"
    /\ \E op \in {"start", "stop"}, direction \in {"left", "right"} :
         /\ op = "stop" => direction = "left"
         /\ op = "start" =>
              Len(spinners) + Cardinality({g \in HandlerIds : Starting(g)})
                  < MaxSpinners
         /\ handler_threads' =
              [handler_threads EXCEPT ![h] =
                 [pc |-> "clear", op |-> op,
                  direction |-> IF op = "start" THEN direction ELSE "none",
                  t |-> 0]]
         /\ anim' = IF op = "start" THEN [anim EXCEPT !.stopped = FALSE]
                    ELSE anim
    /\ UNCHANGED <<animation_running, animation_thread, spinners, pixels,
                   shown>>
    /\ AnimFrame

\* stop_spin_animation returns: to control_rover, or into
\* start_spin_animation, which goes on at line 65.
AfterStop(h) ==
    /\ handler_threads' =
         [handler_threads EXCEPT ![h] =
            IF @.op = "stop" THEN IdleHandler ELSE [@ EXCEPT !.pc = "set"]]
    /\ anim' =
         IF /\ handler_threads[h].op = "stop"
            /\ \A g \in HandlerIds : handler_threads[g].op # "start"
                                     \/ handler_threads[g].pc = "idle"
         THEN [anim EXCEPT !.stopped = TRUE]
         ELSE anim

\* The statement raised; control_rover catches it and answers 500.
HandlerRaises(h) ==
    handler_threads' =
        [handler_threads EXCEPT ![h] = [IdleHandler EXCEPT !.op = "raised"]]

\* line 73: animation_running = False
stop_clear(h) ==
    /\ handler_threads[h].pc = "clear"
    /\ animation_running' = FALSE
    /\ handler_threads' = [handler_threads EXCEPT ![h].pc = "test"]
    /\ UNCHANGED <<animation_thread, spinners, anim, pixels, shown>>
    /\ AnimFrame

\* line 74: if animation_thread:
stop_test(h) ==
    /\ handler_threads[h].pc = "test"
    /\ IF animation_thread = NoThread
       THEN AfterStop(h)
       ELSE /\ handler_threads' =
                 [handler_threads EXCEPT ![h].pc = "call_join"]
            /\ UNCHANGED anim
    /\ UNCHANGED <<animation_running, animation_thread, spinners, pixels,
                   shown>>
    /\ AnimFrame

\* line 75, the call: animation_thread is read again; None has no join
\* (AttributeError), a thread not yet started cannot be joined (RuntimeError).
stop_call_join(h) ==
    /\ handler_threads[h].pc = "call_join"
    /\ IF animation_thread = NoThread
       THEN HandlerRaises(h)
       ELSE IF spinners[animation_thread.thread].pc = "new"
       THEN HandlerRaises(h)
       ELSE handler_threads' =
                [handler_threads EXCEPT ![h].pc = "joining",
                                        ![h].t = animation_thread.thread]
    /\ UNCHANGED <<animation_running, animation_thread, spinners, anim,
                   pixels, shown>>
    /\ AnimFrame

\* line 75, the wait: join(timeout=0.5) returns when the thread has ended,
\* or after the timeout while the thread is still in its loop.
stop_join(h) ==
    /\ handler_threads[h].pc = "joining"
    /\ \E timeout \in BOOLEAN :
         /\ ~timeout => spinners[handler_threads[h].t].pc = "dead"
         /\ timeout => InLoop(handler_threads[h].t)
    /\ handler_threads' = [handler_threads EXCEPT ![h].pc = "forget"]
    /\ UNCHANGED <<animation_running, animation_thread, spinners, anim,
                   pixels, shown>>
    /\ AnimFrame

\* line 76: animation_thread = None
stop_forget(h) ==
    /\ handler_threads[h].pc = "forget"
    /\ animation_thread' = NoThread
    /\ AfterStop(h)
    /\ UNCHANGED <<animation_running, spinners, pixels, shown>>
    /\ AnimFrame

\* line 65: animation_running = True
start_set(h) ==
    /\ handler_threads[h].pc = "set"
    /\ animation_running' = TRUE
    /\ handler_threads' = [handler_threads EXCEPT ![h].pc = "create"]
    /\ UNCHANGED <<animation_thread, spinners, anim, pixels, shown>>
    /\ AnimFrame

\* line 66: animation_thread = threading.Thread(...)
start_create(h) ==
    /\ handler_threads[h].pc = "create"
    /\ spinners' = Append(spinners,
                          [direction |-> handler_threads[h].direction,
                           idx |-> 0, pc |-> "new"])
    /\ animation_thread' = [thread |-> Len(spinners) + 1]
    /\ handler_threads' = [handler_threads EXCEPT ![h].pc = "launch"]
    /\ UNCHANGED <<animation_running, anim, pixels, shown>>
    /\ AnimFrame

\* lines 67-68: animation_thread.daemon = True; animation_thread.start().
\* The global is read again: None has no attribute to set, and a thread
\* that was started already cannot be started again (RuntimeError).
start_launch(h) ==
    /\ handler_threads[h].pc = "launch"
    /\ IF animation_thread = NoThread
       THEN HandlerRaises(h) /\ UNCHANGED spinners
       ELSE IF spinners[animation_thread.thread].pc # "new"
       THEN HandlerRaises(h) /\ UNCHANGED spinners
       ELSE /\ spinners' =
                 [spinners EXCEPT ![animation_thread.thread].pc = "test"]
            /\ handler_threads' =
                 [handler_threads EXCEPT ![h] = IdleHandler]
    /\ UNCHANGED <<animation_running, animation_thread, anim, pixels, shown>>
    /\ AnimFrame

\* line 48: while animation_running
animate_test(t) ==
    /\ spinners[t].pc = "test"
    /\ spinners' = [spinners EXCEPT
                      ![t].pc = IF animation_running THEN "body" ELSE "dead"]
    /\ UNCHANGED <<animation_running, animation_thread, handler_threads,
                   anim, pixels, shown>>
    /\ AnimFrame

\* lines 50-58: the four setPixel calls, show(), the next idx, the sleep.
animate_body(t) ==
    /\ spinners[t].pc = "body"
    /\ LET sequence == IF spinners[t].direction = "right"
                       THEN <<1, 2, 3, 0>> ELSE <<1, 0, 3, 2>>
           lit == [i \in 0 .. 3 |->
                     IF i = sequence[spinners[t].idx + 1]
                     THEN green ELSE white]
       IN  /\ pixels' = lit
           /\ shown' = lit
    /\ spinners' = [spinners EXCEPT ![t].idx = (@ + 1) % 4,
                                    ![t].pc = "test"]
    /\ anim' = IF anim.stopped THEN [anim EXCEPT !.late = TRUE] ELSE anim
    /\ UNCHANGED <<animation_running, animation_thread, handler_threads>>
    /\ AnimFrame

NextAnim ==
    \/ \E h \in HandlerIds :
         \/ Request(h)
         \/ stop_clear(h)
         \/ stop_test(h)
         \/ stop_call_join(h)
         \/ stop_join(h)
         \/ stop_forget(h)
         \/ start_set(h)
         \/ start_create(h)
         \/ start_launch(h)
    \/ \E t \in SpinnerIds :
         \/ animate_test(t)
         \/ animate_body(t)

SpecAnim == Init /\ [][NextAnim]_vars

\* C32: at most one thread is in the loop of animate_spin_leds at any time,
\* also after a join that timed out and with two requests handled at once;
\* once stop_spin_animation has returned, no animation thread writes an LED.
C32_OneSpinner ==
    /\ Cardinality({t \in SpinnerIds : InLoop(t)}) <= 1
    /\ ~anim.late

(***************************************************************************)
(* src/web_interface.py: the web application of the simulator, whose       *)
(* rover is the module roversimulator, a RoverWebDriver (SpecSite)         *)
(***************************************************************************)
\* The commands dict (lines 11-19) with the value the global speed has when
\* the lambda runs.
site_commands(current) ==
    [forward |-> Call("forward", current, 0),
     backward |-> Call("reverse", current, 0),
     spin_left |-> Call("spinLeft", current, 0),
     spin_right |-> Call("spinRight", current, 0),
     stop |-> Call("stop", 0, 0),
     turn_forward |-> Call("turnForward", current, current),
     turn_reverse |-> Call("turnReverse", current, current)]

\* Names that reach handle_command: /command/turn_forward and
\* /command/turn_reverse have routes of their own.
SiteCommandNames == {"forward", "backward", "spin_left", "stop", "dance"}

SiteInstructions ==
    {[cmd |-> "forward", time |-> 1], [cmd |-> "turn_reverse", time |-> 2],
     [cmd |-> "steer_left", time |-> 1], [cmd |-> "dance", time |-> 1],
     [cmd |-> "spin_left"]}

RECURSIVE SiteSeqs(_)
SiteSeqs(n) ==
    IF n = 0 THEN {<<>>}
    ELSE SiteSeqs(n - 1)
         \cup {Append(q, i) : q \in {p \in SiteSeqs(n - 1) : Len(p) = n - 1},
                              i \in SiteInstructions}

\* One round of the loop of handle_sequence (lines 59-70): instruction['time']
\* raises KeyError when the key is missing; a name that is not in the dict
\* is passed over, without a stop.
SiteInstruct(instruction, st) ==
    IF "time" \notin DOMAIN instruction
    THEN [st EXCEPT !.exc = "KeyError"]
    ELSE IF instruction.cmd \notin DOMAIN site_commands(100)
    THEN st
    ELSE LET done == Exec(site_commands(100)[instruction.cmd],
                          st.lDir, st.rDir, <<>>)
             stopped == Exec(Call("stop", 0, 0), done.lDir, done.rDir, <<>>)
         IN  [stopped EXCEPT
                !.log = st.log \o done.log
                        \o <<SleepEv(1000 * instruction.time)>> \o @
                        \o <<SleepEv(100)>>]

RECURSIVE RunSiteSequence(_, _)
RunSiteSequence(sequence, st) ==
    IF sequence = <<>> \/ st.exc # NoExc THEN st
    ELSE RunSiteSequence(Tail(sequence), SiteInstruct(Head(sequence), st))

SiteFrame ==
    UNCHANGED <<hist, before, faults, arrived, delivered, twinVars, calcVars,
                serverVars, webVars, raceVars, channelVars, windowVars,
                animVars, clientVars>>

\* handle_command(cmd), lines 25-33
handle_command ==
    /\ \E cmd \in SiteCommandNames, body \in Bodies :
         LET table == site_commands(BodySpeed(body))
         IN  IF cmd \in DOMAIN table
             THEN LET st == Exec(table[cmd], lDir, rDir, <<>>)
                  IN  /\ Driver(st)
                      /\ app' = [route |-> "command", cmd |-> cmd,
                                 sequence |-> <<>>, status |-> Success,
                                 log |-> st.log]
             ELSE /\ app' = [route |-> "command", cmd |-> cmd,
                             sequence |-> <<>>, status |-> BadRequest,
                             log |-> <<>>]
                  /\ UNCHANGED <<lDir, rDir, raised>>
    /\ SiteFrame

\* handle_sequence(), lines 51-72
handle_sequence ==
    /\ \E sequence \in SiteSeqs(MaxSteps) :
         LET st0 == [lDir |-> lDir, rDir |-> rDir, log |-> <<>>,
                     got |-> <<>>, at |-> <<lDir, rDir>>, exc |-> NoExc,
                     sent |-> 0, pc |-> 1]
             st == RunSiteSequence(sequence, st0)
         IN  /\ Driver(st)
             /\ app' = [route |-> "sequence", cmd |-> "none",
                        sequence |-> sequence,
                        status |-> IF st.exc = NoExc THEN Success
                                   ELSE InternalServerError,
                        log |-> st.log]
    /\ SiteFrame

NextSite == handle_command \/ handle_sequence

SpecSite == Init /\ [][NextSite]_vars

\* The wheelMotors messages of a log, in order.
MotorMessages(log) == SelectSeq(log, IsMotor)

\* The stops that end an instruction: a stop message and the brief pause.
InstructionStops(log) ==
    Cardinality({j \in 1 .. Len(log) - 1 :
                   log[j] = StopMsg /\ log[j + 1] = SleepEv(100)})

\* C33: when the handler has processed a non-empty sequence, every
\* instruction was followed by a stop, the last motor message issued is a
\* stop and the direction state is (0,0), whatever the command names are.
C33_SequenceEndsStopped ==
    (app.route = "sequence" /\ app.status = Success /\ app.sequence # <<>>)
    => /\ InstructionStops(app.log) = Len(app.sequence)
       /\ MotorMessages(app.log) # <<>>
       /\ MotorMessages(app.log)[Len(MotorMessages(app.log))] = StopMsg
       /\ lDir = 0 /\ rDir = 0

(***************************************************************************)
(* Unknown command names at /command/<cmd> (SpecCommand)                   *)
(***************************************************************************)
\* The handler of the rover answers a request whose name is not in its dict.
AnswersUnknown(rover) ==
    /\ web[rover].pc = "dispatch"
    /\ web'[rover].pc = "idle"
    /\ web[rover].cmd \notin DOMAIN commands(global_speed)

\* The /command/<cmd> requests of both rovers alone.
NextCommand ==
    \E rover \in Rovers :
        \/ BindSpeed(rover)
        \/ Dispatch(rover)

SpecCommand == Init /\ [][NextCommand]_vars

\* C34: a /command/<cmd> request whose name is not in the handler's command
\* table is answered with status 400, sends no message to the rover and
\* leaves the direction state of the driver as it was.
C34_UnknownCommandRejected ==
    [][\A rover \in Rovers :
         AnswersUnknown(rover) =>
             /\ web'[rover].status = BadRequest
             /\ sent'[rover] = <<>>
             /\ rovers' = rovers]_vars

\* C34 witness: the real rover was driving forward when the name dance was
\* answered with 400; it is still driving and nothing was sent.
C34_Witness ==
    /\ web["real"].pc = "idle"
    /\ web["real"].cmd = "dance"
    /\ web["real"].status = BadRequest
    /\ sent["real"] = <<>>
    /\ rovers["real"] = [lDir |-> 1, rDir |-> 1]

(***************************************************************************)
(* RTCWindow: streaming started and stopped per stream (SpecStreams)       *)
(***************************************************************************)
\* start_streaming(stream_uuid) for a stream
start_streaming_stream ==
    \E stream_uuid \in StreamUuids : StartStreaming(stream_uuid)

\* stop_streaming(stream_uuid) for a stream, or for all with None
stop_streaming_stream ==
    /\ ~cleaned.done
    /\ \E stream_uuid \in StreamUuids \cup {None} :
         LET out == stop_streaming(peer_connections, capture_timer,
                                   stream_uuid)
         IN  /\ peer_connections' = out.peer_connections
             /\ capture_timer' = out.capture_timer
             /\ streams_started' = IF stream_uuid = None THEN {}
                                   ELSE streams_started \ {stream_uuid}
    /\ UNCHANGED <<stream_uuid_counter, cleaned, driverVars, twinVars,
                   calcVars, serverVars, webVars, raceVars, channelVars,
                   animVars, clientVars, app>>

NextStreams ==
    \/ start_generate_offer
    \/ start_from_offer
    \/ process_answer
    \/ start_streaming_stream
    \/ stop_streaming_stream

SpecStreams == InitWindow /\ [][NextStreams]_vars

\* C35: stop_streaming(stream_uuid) stops that stream only; while streaming
\* was started for another stream and not stopped, the capture timer is
\* still running.
C35_TimerRunsWhileStreaming ==
    streams_started # {} => capture_timer

(***************************************************************************)
(* web_interface/rtc_client.py: RTCClient.  Every connect() that was       *)
(* started is a coroutine; a step runs one of them from one await to the   *)
(* next, as the event loop does (SpecClient)                               *)
(***************************************************************************)
CoroutineIds == DOMAIN coroutines

Pc(c) == coroutines[c].pc

\* An asyncio task that cancel() still stops.
Unfinished(c) == Pc(c) \in {"created", "connecting", "listening", "sleeping"}

\* _handle_reconnect up to its sleep (lines 154-161), with the check of the
\* limit after the increment.
handle_reconnect_late_check(cl) ==
    IF cl.reconnect_attempts > MaxReconnects
    THEN [client |-> cl, pc |-> "done"]
    ELSE [client |-> [cl EXCEPT !.reconnect_attempts = @ + 1],
          pc |-> "sleeping"]

\* _handle_reconnect up to its sleep (lines 154-161): at the limit it
\* returns, and connect() returns with it.
handle_reconnect(cl) ==
    IF cl.reconnect_attempts >= MaxReconnects
    THEN [client |-> cl, pc |-> "done"]
    ELSE [client |-> [cl EXCEPT !.reconnect_attempts = @ + 1],
          pc |-> "sleeping"]

ClientFrame ==
    UNCHANGED <<driverVars, twinVars, calcVars, serverVars, webVars,
                raceVars, channelVars, windowVars, animVars, app>>

\* The application calls connect(): it runs to the await of
\* websockets.connect.
client_connect ==
    /\ client_log.connects < MaxConnects
    /\ coroutines' = Append(coroutines, [pc |-> "connecting", task |-> FALSE])
    /\ client_log' = [client_log EXCEPT !.connects = @ + 1,
                                        !.attempts = @ + 1,
                                        !.disconnected = FALSE]
    /\ UNCHANGED client
    /\ ClientFrame

\* The event loop starts a task made by create_task(self.connect()).
task_runs(c) ==
    /\ Pc(c) = "created"
    /\ coroutines' = [coroutines EXCEPT ![c].pc = "connecting"]
    /\ client_log' = [client_log EXCEPT !.attempts = @ + 1]
    /\ UNCHANGED client
    /\ ClientFrame

\* websockets.connect returned (lines 56-66): the coroutine listens.
connect_succeeds(c) ==
    /\ Pc(c) = "connecting"
    /\ client_log.successes < MaxSuccesses
    /\ client' = [client EXCEPT !.websocket = c, !.connected = TRUE,
                                !.reconnect_attempts = 0]
    /\ coroutines' = [coroutines EXCEPT ![c].pc = "listening"]
    /\ client_log' = [client_log EXCEPT !.successes = @ + 1]
    /\ ClientFrame

\* websockets.connect raised (lines 68-72).
connect_fails(c) ==
    /\ Pc(c) = "connecting"
    /\ LET out == handle_reconnect(client)
       IN  /\ client' = out.client
           /\ coroutines' = [coroutines EXCEPT ![c].pc = out.pc]
    /\ UNCHANGED client_log
    /\ ClientFrame

\* The iteration over the socket raised ConnectionClosed (lines 96-99).
connection_closed(c) ==
    /\ Pc(c) = "listening"
    /\ LET out == handle_reconnect([client EXCEPT !.connected = FALSE])
       IN  /\ client' = out.client
           /\ coroutines' = [coroutines EXCEPT ![c].pc = out.pc]
    /\ UNCHANGED client_log
    /\ ClientFrame

\* The iteration ended without ConnectionClosed: a normal close by the
\* server, or another exception (lines 100-103).
listen_ends(c) ==
    /\ Pc(c) = "listening"
    /\ coroutines' = [coroutines EXCEPT ![c].pc = "done"]
    /\ UNCHANGED <<client, client_log>>
    /\ ClientFrame

\* asyncio.sleep(reconnect_interval) is over (lines 163-164).
wake(c) ==
    /\ Pc(c) = "sleeping"
    /\ IF ~client.connected
       THEN /\ coroutines' =
                 Append([coroutines EXCEPT ![c].pc = "done"],
                        [pc |-> "created", task |-> TRUE])
            /\ client' = [client EXCEPT
                            !.reconnect_task = Len(coroutines) + 1]
       ELSE /\ coroutines' = [coroutines EXCEPT ![c].pc = "done"]
            /\ UNCHANGED client
    /\ UNCHANGED client_log
    /\ ClientFrame

\* disconnect() (lines 74-89): reconnect_task.cancel() ends that task at
\* its await; closing the socket ends the iteration of its listener.
client_disconnect ==
    /\ client' = [client EXCEPT !.connected = FALSE, !.reconnect_task = 0,
                                !.websocket = 0]
    /\ coroutines' =
         [c \in CoroutineIds |->
            IF c = client.reconnect_task /\ Unfinished(c)
            THEN [coroutines[c] EXCEPT !.pc = "cancelled"]
            ELSE IF c = client.websocket /\ Pc(c) = "listening"
            THEN [coroutines[c] EXCEPT !.pc = "done"]
            ELSE coroutines[c]]
    /\ client_log' = [client_log EXCEPT !.disconnected = TRUE]
    /\ ClientFrame

NextClient ==
    \/ client_connect
    \/ client_disconnect
    \/ \E c \in CoroutineIds :
         \/ task_runs(c)
         \/ connect_succeeds(c)
         \/ connect_fails(c)
         \/ connection_closed(c)
         \/ listen_ends(c)
         \/ wake(c)

SpecClient == Init /\ [][NextClient]_vars

\* No attempt has succeeded, and none is under way.
AllFailed ==
    /\ client_log.successes = 0
    /\ \A c \in CoroutineIds : Pc(c) # "connecting"

ReconnectBounded ==
    /\ client.reconnect_attempts \in 0 .. MaxReconnects
    /\ client_log.successes = 0 =>
         client_log.attempts <= client_log.connects + MaxReconnects
    /\ (AllFailed
        /\ client_log.attempts = client_log.connects + MaxReconnects) =>
           \A c \in CoroutineIds : ~Unfinished(c)

\* C36: reconnect_attempts stays within [0, max_reconnect_attempts]; every
\* successful connect resets it to 0; while no attempt succeeds, a call of
\* connect() is followed by at most max_reconnect_attempts further
\* attempts, and when all of them have failed no coroutine or task of the
\* client is left pending.
C36_ReconnectLoopBounded ==
    /\ []ReconnectBounded
    /\ [][client_log'.successes # client_log.successes =>
            client'.reconnect_attempts = 0 /\ client'.connected]_vars

\* C36 witness: one connect(), 1 + max_reconnect_attempts attempts, all
\* failed, and every coroutine has ended.
C36_Witness ==
    /\ client_log.connects = 1
    /\ client_log.successes = 0
    /\ ~client_log.disconnected
    /\ client_log.attempts = 1 + MaxReconnects
    /\ client.reconnect_attempts = MaxReconnects
    /\ \A c \in CoroutineIds : Pc(c) = "done"

\* C37: once disconnect() has completed, the client makes no connection
\* attempt and does not become connected until connect() is called again,
\* also when disconnect() came while a reconnect was waiting out its
\* interval.
C37_DisconnectIsFinal ==
    [][(client_log.disconnected /\ client_log'.disconnected) =>
          /\ client_log'.attempts = client_log.attempts
          /\ ~client'.connected]_vars

(***************************************************************************)
(* RTCWindow: how a peer connection is made and connected (SpecWindow)     *)
(***************************************************************************)
\* What process_answer(stream_uuid, answer) emits on peer connections pcs.
ProcessAnswerSignals(pcs, stream_uuid) ==
    IF stream_uuid \notin Peers(pcs) THEN <<>>
    ELSE <<[signal |-> "connection_state_changed",
            stream_uuid |-> stream_uuid, state |-> "connected"]>>

\* add_ice_candidate emits nothing.
AddIceCandidateSignals(pcs, stream_uuid) == <<>>

\* In this step the state of stream_uuid becomes connected.
BecomesConnected(stream_uuid) ==
    /\ stream_uuid \in Peers(peer_connections')
    /\ peer_connections'[stream_uuid].state = "connected"
    /\ ~(/\ stream_uuid \in Peers(peer_connections)
         /\ peer_connections[stream_uuid].state = "connected")

\* For a stream_uuid that is not in peer_connections, process_answer and
\* add_ice_candidate change nothing and emit nothing.
UnknownStreamIgnored ==
    \A stream_uuid \in StreamUuids \ Peers(peer_connections) :
        /\ \A answer \in Answers :
             ProcessAnswer(peer_connections, stream_uuid, answer)
                 = peer_connections
        /\ ProcessAnswerSignals(peer_connections, stream_uuid) = <<>>
        /\ \A candidate \in Candidates :
             AddIceCandidate(peer_connections, stream_uuid, candidate)
                 = peer_connections
        /\ AddIceCandidateSignals(peer_connections, stream_uuid) = <<>>

\* C38: a peer connection becomes connected only through process_answer on
\* a stream_uuid that is in peer_connections; process_answer and
\* add_ice_candidate for an unknown stream_uuid change nothing and emit
\* nothing; start_generate_offer with a generated stream UUID never
\* replaces an entry that exists.
C38_PeerConnectionLifecycle ==
    /\ []UnknownStreamIgnored
    /\ [][\A stream_uuid \in StreamUuids :
            BecomesConnected(stream_uuid) =>
                /\ stream_uuid \in Peers(peer_connections)
                /\ \E answer \in Answers :
                     peer_connections' =
                         ProcessAnswer(peer_connections, stream_uuid, answer)
         ]_vars
    /\ [][stream_uuid_counter' # stream_uuid_counter =>
            StreamUuid("stream_", stream_uuid_counter)
                \notin Peers(peer_connections)]_vars

====
